---- MODULE Spec2Model ----
(***************************************************************************)
(* Model of the ad-preview staging tool: the deployment client             *)
(* (githubService), the in-memory client / campaign / preview tables and   *)
(* the generate-preview / generate-batch request handlers (routes/api.js). *)
(*                                                                         *)
(* Strings are sequences of one-character strings, so that the regular     *)
(* expression rewrites of the code are computed character by character.    *)
(***************************************************************************)
EXTENDS Integers, Sequences, FiniteSets, TLC

VARIABLES
  sanIn,      \* SpecSanitize: the string handed to sanitizePath
  sanOut,     \* SpecSanitize: the results of the successive applications
  fnIn,       \* the argument a function of the code is called with
  fnOut,      \* what the call returned or threw, <<>> before the call
  clients,    \* api.js `clients`: sequence of [id, name, slug]
  campaigns,  \* api.js `campaigns`: clientId -> sequence of campaigns
  tblResp,    \* the response of the last clients / campaigns request
  now,        \* the wall clock read by new Date()
  env,        \* process.env: GITHUB_TOKEN, GITHUB_OWNER, GITHUB_REPO, CUSTOM_DOMAIN
  ghRef,      \* the remote repository: the commit refs/heads/gh-pages points at
  dep,        \* the calls of githubService.deploy, each with its locals
  previews,   \* api.js `previews`
  uploads,    \* the fileIds whose ZIP is in the upload directory
  req         \* the generate-preview / generate-batch requests with their locals

tblVars == <<clients, campaigns, tblResp>>
sanVars == <<sanIn, sanOut, fnIn, fnOut>>
gitVars == <<env, ghRef, dep>>
apiVars == <<previews, uploads, req>>
vars == <<sanIn, sanOut, fnIn, fnOut, clients, campaigns, tblResp, now, env, ghRef, dep,
          previews, uploads, req>>

----------------------------------------------------------------------------
(* Characters and strings *)

UpperChars == <<"A","B","C","D","E","F","G","H","I","J","K","L","M",
                "N","O","P","Q","R","S","T","U","V","W","X","Y","Z">>
LowerChars == <<"a","b","c","d","e","f","g","h","i","j","k","l","m",
                "n","o","p","q","r","s","t","u","v","w","x","y","z">>
DigitChars == <<"0","1","2","3","4","5","6","7","8","9">>

Range(s) == {s[i] : i \in 1..Len(s)}

UpperSet == Range(UpperChars)
AlnumSet == Range(LowerChars) \cup Range(DigitChars)
LowerOf == [c \in UpperSet |-> LowerChars[CHOOSE i \in 1..26 : UpperChars[i] = c]]

\* String.prototype.toLowerCase, one character
LowerChar(c) == IF c \in UpperSet THEN LowerOf[c] ELSE c

toLowerCase(s) == [i \in 1..Len(s) |-> LowerChar(s[i])]

\* the character class [a-z0-9]
IsAlnum(c) == c \in AlnumSet

\* the character class [a-z0-9\-_\/]
IsPathChar(c) == IsAlnum(c) \/ c \in {"-", "_", "/"}

\* the subsequence of s at the positions i with keep[i]
Kept(s, keep) ==
  LET F[i \in 0..Len(s)] ==
        IF i = 0 THEN <<>>
        ELSE IF keep[i] THEN Append(F[i-1], s[i]) ELSE F[i-1]
  IN F[Len(s)]

\* .replace(/[^a-z0-9\-_\/]/g, '-')
ReplaceNonPath(s) == [i \in 1..Len(s) |-> IF IsPathChar(s[i]) THEN s[i] ELSE "-"]

\* .replace(/-+/g, '-')
CollapseHyphens(s) ==
  Kept(s, [i \in 1..Len(s) |-> ~(s[i] = "-" /\ i > 1 /\ s[i-1] = "-")])

\* .replace(/^-|-$/g, ''): one leading and one trailing hyphen
TrimHyphenEnds(s) ==
  LET t == IF Len(s) > 0 /\ s[1] = "-" THEN Tail(s) ELSE s
  IN IF Len(t) > 0 /\ t[Len(t)] = "-" THEN SubSeq(t, 1, Len(t) - 1) ELSE t

\* a plausible slip: the ends are trimmed before the runs are collapsed
sanitizePathTrimFirst(input) ==
  CollapseHyphens(TrimHyphenEnds(ReplaceNonPath(toLowerCase(input))))

\* githubService.sanitizePath
sanitizePath(input) ==
  TrimHyphenEnds(CollapseHyphens(ReplaceNonPath(toLowerCase(input))))

\* .replace(/[^a-z0-9]+/g, '-'): every run of other characters becomes one hyphen
ReplaceNonAlnumRuns(s) ==
  Kept([i \in 1..Len(s) |-> IF IsAlnum(s[i]) THEN s[i] ELSE "-"],
       [i \in 1..Len(s) |-> IsAlnum(s[i]) \/ i = 1 \/ IsAlnum(s[i-1])])

\* name.toLowerCase().replace(/[^a-z0-9]+/g, '-').replace(/(^-|-$)/g, '')
Slugify(name) == TrimHyphenEnds(ReplaceNonAlnumRuns(toLowerCase(name)))

----------------------------------------------------------------------------
(* sanitizePath applied to bounded inputs *)

MaxLen == 4
SanAlphabet == {"A", "b", "-", "/", "!"}

RECURSIVE SeqsUpTo(_, _)
SeqsUpTo(S, n) ==
  IF n = 0 THEN {<<>>}
  ELSE LET shorter == SeqsUpTo(S, n - 1)
       IN shorter \cup {Append(s, c) : s \in {t \in shorter : Len(t) = n - 1}, c \in S}

SanInputs == SeqsUpTo(SanAlphabet, MaxLen)

SanitizeAgain ==
  /\ Len(sanOut) < 2
  /\ sanOut' = Append(sanOut,
                      sanitizePath(IF sanOut = <<>> THEN sanIn ELSE sanOut[Len(sanOut)]))
  /\ UNCHANGED <<sanIn, fnIn, fnOut, tblVars, now, gitVars, apiVars>>

SanInit ==
  /\ sanIn \in SanInputs
  /\ sanOut = <<>>

----------------------------------------------------------------------------
(* The client and campaign tables (routes/api.js) *)

SeedClients ==
  << [id |-> <<"c","o","c","a","-","c","o","l","a">>,
      name |-> <<"C","o","c","a","-","C","o","l","a">>,
      slug |-> <<"c","o","c","a","-","c","o","l","a">>],
     [id |-> <<"v","e","r","i","z","o","n">>,
      name |-> <<"V","e","r","i","z","o","n">>,
      slug |-> <<"v","e","r","i","z","o","n">>],
     [id |-> <<"g","o","o","g","l","e">>,
      name |-> <<"G","o","o","g","l","e">>,
      slug |-> <<"g","o","o","g","l","e">>],
     [id |-> <<"m","e","t","a">>,
      name |-> <<"M","e","t","a">>,
      slug |-> <<"m","e","t","a">>],
     [id |-> <<"a","m","a","z","o","n">>,
      name |-> <<"A","m","a","z","o","n">>,
      slug |-> <<"a","m","a","z","o","n">>],
     [id |-> <<"n","i","k","e">>,
      name |-> <<"N","i","k","e">>,
      slug |-> <<"n","i","k","e">>],
     [id |-> <<"a","p","p","l","e">>,
      name |-> <<"A","p","p","l","e">>,
      slug |-> <<"a","p","p","l","e">>] >>

AcmeCorp == <<"A","c","m","e"," ","C","o","r","p">>
AcmeCorpLoud == <<"A","C","M","E"," ","C","O","R","P","!","!">>
AcmeSlug == <<"a","c","m","e","-","c","o","r","p">>
NikeId == <<"n","i","k","e">>
GhostId == <<"g","h","o","s","t">>

\* the names a POST /api/clients request may carry
ClientNames ==
  { AcmeCorp, AcmeCorpLoud, <<"n","i","k","e","!">>, <<>> }

\* the names a POST /api/clients/:clientId/campaigns request may carry
CampaignNames ==
  { <<"S","u","m","m","e","r"," ","2","5">>, <<"s","u","m","m","e","r","_","_","2","5">>,
    <<>> }

\* the :clientId route parameters tried
ClientIdParams == { NikeId, GhostId }

\* a request body with or without the name field
Bodies(names) == {[name |-> n] : n \in names} \cup {[other |-> TRUE]}

\* JavaScript's !body.name
NoName(body) == "name" \notin DOMAIN body \/ body.name = <<>>

\* clients.find(c => c.id === id) finds something
HasClient(cs, id) == \E i \in 1..Len(cs) : cs[i].id = id

\* list.find(c => c.slug === slug) finds something
HasSlug(list, slug) == \E i \in 1..Len(list) : list[i].slug = slug

\* campaigns[clientId] || []
CampaignsOf(cid) == IF cid \in DOMAIN campaigns THEN campaigns[cid] ELSE <<>>

\* a plausible slip: the duplicate check compares the raw name, not the id
ClientExistsByName(id, name) == \E i \in 1..Len(clients) : clients[i].name = name

\* the duplicate check of router.post('/clients'): clients.find(c => c.id === id)
ClientExists(id, name) == HasClient(clients, id)

\* router.post('/clients')
PostClients(body) ==
  /\ IF NoName(body)
       THEN /\ tblResp' = [op |-> "postClients", body |-> body, status |-> 400,
                           error |-> "Client name is required"]
            /\ UNCHANGED clients
       ELSE LET slug == Slugify(body.name)
                id == slug
            IN IF ClientExists(id, body.name)
                 THEN /\ tblResp' = [op |-> "postClients", body |-> body, status |-> 400,
                                     error |-> "Client already exists"]
                      /\ UNCHANGED clients
                 ELSE LET client == [id |-> id, name |-> body.name, slug |-> slug]
                      IN /\ clients' = Append(clients, client)
                         /\ tblResp' = [op |-> "postClients", body |-> body,
                                        status |-> 200, client |-> client]
  /\ UNCHANGED <<campaigns, now, sanVars, gitVars, apiVars>>

\* a plausible slip: the duplicate check looks for the campaign id among the slugs
CampaignExistsById(list, slug, id) == HasSlug(list, id)

\* the duplicate check of router.post('/clients/:clientId/campaigns'):
\* campaigns[clientId].find(c => c.slug === slug)
CampaignExists(list, slug, id) == HasSlug(list, slug)

\* router.post('/clients/:clientId/campaigns')
PostCampaigns(clientId, body) ==
  /\ IF NoName(body)
       THEN /\ tblResp' = [op |-> "postCampaigns", clientId |-> clientId, body |-> body,
                           status |-> 400, error |-> "Campaign name is required"]
            /\ UNCHANGED campaigns
       ELSE LET slug == Slugify(body.name)
                id == clientId \o <<"-">> \o slug
                \* if (!campaigns[clientId]) campaigns[clientId] = []
                table == [c \in DOMAIN campaigns \cup {clientId} |-> CampaignsOf(c)]
            IN IF CampaignExists(table[clientId], slug, id)
                 THEN /\ tblResp' = [op |-> "postCampaigns", clientId |-> clientId,
                                     body |-> body, status |-> 400,
                                     error |-> "Campaign already exists for this client"]
                      /\ campaigns' = table
                 ELSE LET campaign == [id |-> id, name |-> body.name, slug |-> slug,
                                       clientId |-> clientId, createdAt |-> now]
                      IN /\ campaigns' = [table EXCEPT ![clientId] = Append(@, campaign)]
                         /\ tblResp' = [op |-> "postCampaigns", clientId |-> clientId,
                                        body |-> body, status |-> 200,
                                        campaign |-> campaign]
  /\ UNCHANGED <<clients, now, sanVars, gitVars, apiVars>>

\* the clock advances between requests
MaxClock == 1

Tick ==
  /\ now < MaxClock
  /\ now' = now + 1
  /\ UNCHANGED <<sanVars, tblVars, gitVars, apiVars>>

----------------------------------------------------------------------------
(* Paths: Node's posix path.join *)

\* s.split('/')
SplitStep(acc, ch) ==
  IF ch = "/" THEN Append(acc, <<>>)
  ELSE [acc EXCEPT ![Len(acc)] = Append(@, ch)]

RECURSIVE SplitFrom(_, _, _)
SplitFrom(s, i, acc) ==
  IF i > Len(s) THEN acc ELSE SplitFrom(s, i + 1, SplitStep(acc, s[i]))

SplitSlash(s) == SplitFrom(s, 1, << <<>> >>)

\* segs.join('/')
RECURSIVE JoinFrom(_, _, _)
JoinFrom(segs, i, acc) ==
  IF i > Len(segs) THEN acc
  ELSE JoinFrom(segs, i + 1, IF i = 1 THEN segs[1] ELSE acc \o <<"/">> \o segs[i])

JoinSlash(segs) == JoinFrom(segs, 1, <<>>)

\* path.posix normalizeString: "." and empty segments dropped, ".." resolved
NormalizeStep(st, g, allowAboveRoot) ==
  IF g = <<>> \/ g = <<".">> THEN st
  ELSE IF g = <<".", ".">>
    THEN IF Len(st) > 0 /\ st[Len(st)] # <<".", ".">>
           THEN SubSeq(st, 1, Len(st) - 1)
           ELSE IF allowAboveRoot THEN Append(st, g) ELSE st
  ELSE Append(st, g)

RECURSIVE NormalizeFrom(_, _, _, _)
NormalizeFrom(segs, i, st, allowAboveRoot) ==
  IF i > Len(segs) THEN st
  ELSE NormalizeFrom(segs, i + 1, NormalizeStep(st, segs[i], allowAboveRoot), allowAboveRoot)

NormalizeSegments(segs, allowAboveRoot) == NormalizeFrom(segs, 1, <<>>, allowAboveRoot)

\* path.posix.normalize
PathNormalize(path) ==
  IF path = <<>> THEN <<".">>
  ELSE LET isAbsolute == path[1] = "/"
           trailingSeparator == path[Len(path)] = "/"
           body == JoinSlash(NormalizeSegments(SplitSlash(path), ~isAbsolute))
       IN IF body = <<>>
            THEN IF isAbsolute THEN <<"/">>
                 ELSE IF trailingSeparator THEN <<".", "/">> ELSE <<".">>
            ELSE (IF isAbsolute THEN <<"/">> ELSE <<>>) \o body
                   \o (IF trailingSeparator THEN <<"/">> ELSE <<>>)

\* path.join(a, b): the non-empty arguments joined by '/', then normalized
PathJoin(a, b) ==
  IF a = <<>> /\ b = <<>> THEN <<".">>
  ELSE IF a = <<>> THEN PathNormalize(b)
  ELSE IF b = <<>> THEN PathNormalize(a)
  ELSE PathNormalize(a \o <<"/">> \o b)

\* .replace(/\\/g, '/')
BackslashToSlash(s) == [i \in 1..Len(s) |-> IF s[i] = "\\" THEN "/" ELSE s[i]]

----------------------------------------------------------------------------
(* The remote repository and githubService.deploy *)

OwnerName == <<"o","w">>
RepoName == <<"r","p">>
DomainName == <<"d",".","i","o">>

\* process.env as the service reads it; an unset variable reads as the empty string
FullEnv == [token |-> <<"t">>, owner |-> OwnerName, repo |-> RepoName, customDomain |-> <<>>]
Envs ==
  { FullEnv,
    [FullEnv EXCEPT !.customDomain = DomainName],
    [FullEnv EXCEPT !.token = <<>>],
    [FullEnv EXCEPT !.owner = <<>>],
    [FullEnv EXCEPT !.repo = <<>>] }

\* the objects the repository holds before any deployment
Blob(content, encoding) == [content |-> content, encoding |-> encoding]
DefaultTree == (<<"R">> :> Blob("readme", "utf-8"))
DefaultTip == [tree |-> DefaultTree, parents |-> <<>>, message |-> <<"init">>]
PagesTree ==
  (<<"R">> :> Blob("readme", "utf-8"))
    @@ (<<"a","/","b","/","i">> :> Blob("old", "utf-8"))
    @@ (<<"k","/","i">> :> Blob("kept", "utf-8"))
PagesTip == [tree |-> PagesTree, parents |-> <<DefaultTip>>, message |-> <<"earlier">>]

\* FileRecords as the extractor and the template generator produce them
FileI1 == [path |-> <<"i">>, content |-> "c1", encoding |-> "utf-8", type |-> "html"]
FileI2 == [path |-> <<"i">>, content |-> "c2", encoding |-> "utf-8", type |-> "html"]
FileP == [path |-> <<"p">>, content |-> "c3", encoding |-> "base64", type |-> "image"]

\* the calls of a deployment that go to the remote service, by the pc that
\* waits for their completion
RemotePcs ==
  { "ensureGetRef", "reposGet", "defaultGetRef", "createRef", "getRef", "getCommit",
    "createBlob", "createTree", "createCommit", "updateRef" }

IdleDeploy ==
  [ pc |-> "idle", creativeName |-> <<>>, folderPath |-> <<>>, files |-> <<>>,
    basePath |-> <<>>, currentCommitSha |-> <<>>, baseTreeSha |-> <<>>,
    pending |-> {}, treeItems |-> <<>>, newTree |-> <<>>, newCommit |-> <<>>,
    result |-> <<>>, error |-> <<>>, calls |-> <<>>, refAtCall |-> <<>> ]

\* the message of the error a failed remote call rejects with
RemoteError(op) == <<"remote: ", op>>

\* a plausible slip: the error is rethrown as it came
Rethrown(message) == message

\* catch (error) { throw new Error(`Failed to deploy to GitHub: ${error.message}`) }
Wrapped(message) == <<"Failed to deploy to GitHub: ">> \o message

\* a plausible slip: the configuration is not looked at before the first call
ConfigErrorNever(e) == <<>>

\* getOctokit and getConfig: the error thrown for a configuration, <<>> if none
ConfigError(e) ==
  IF e.token = <<>> THEN <<"GITHUB_TOKEN environment variable is not set">>
  ELSE IF e.owner = <<>> \/ e.repo = <<>>
    THEN <<"GITHUB_OWNER and GITHUB_REPO environment variables are required">>
  ELSE <<>>

\* deploy up to its first await: the record of the call
StartDeploy(creativeName, folderPath, files) ==
  LET base == [IdleDeploy EXCEPT !.creativeName = creativeName,
                                 !.folderPath = folderPath,
                                 !.files = files,
                                 !.refAtCall = ghRef]
  IN IF ConfigError(env) # <<>>
       THEN [base EXCEPT !.pc = "failed", !.error = ConfigError(env)]
       ELSE [base EXCEPT !.pc = "ensureGetRef",
                         !.basePath = sanitizePath(IF folderPath # <<>> THEN folderPath
                                                   ELSE creativeName),
                         !.calls = <<"ensureGetRef">>]

\* a plausible slip: the call is sent a second time (a retry)
IssueTwice(d, op) == [d EXCEPT !.pc = op, !.calls = @ \o <<op, op>>]

\* the next call is issued: the pc waits for it
Issue(d, op) == [d EXCEPT !.pc = op, !.calls = Append(@, op)]


MaxCallers == 2
Callers == 1..MaxCallers

\* what every step of a deployment leaves alone
DeployFrame == UNCHANGED <<env, sanVars, tblVars, now, apiVars>>

\* any remote call may be answered with an error: ensureBranchExists rethrows
\* it (unless it is the lookup's 404), deploy's catch wraps it
RemoteCallFails(c) ==
  /\ dep[c].pc \in RemotePcs
  /\ dep' = [dep EXCEPT ![c] = [@ EXCEPT !.pc = "failed",
                                         !.error = Wrapped(RemoteError(dep[c].pc))]]
  /\ UNCHANGED ghRef
  /\ DeployFrame

\* a plausible slip: the branch is created whatever the lookup answered
EnsureGetRefOkCreates(c) ==
  /\ dep[c].pc = "ensureGetRef"
  /\ ghRef # <<>>
  /\ dep' = [dep EXCEPT ![c] = Issue(@, "reposGet")]
  /\ UNCHANGED ghRef
  /\ DeployFrame

\* ensureBranchExists: the lookup finds the branch
EnsureGetRefOk(c) ==
  /\ dep[c].pc = "ensureGetRef"
  /\ ghRef # <<>>
  /\ dep' = [dep EXCEPT ![c] = Issue(@, "getRef")]
  /\ UNCHANGED ghRef
  /\ DeployFrame

\* ensureBranchExists: the lookup answers 404, the repository is read
EnsureGetRefNotFound(c) ==
  /\ dep[c].pc = "ensureGetRef"
  /\ ghRef = <<>>
  /\ dep' = [dep EXCEPT ![c] = Issue(@, "reposGet")]
  /\ UNCHANGED ghRef
  /\ DeployFrame

\* ensureBranchExists: repos.get answered, the default branch's ref is read
ReposGetOk(c) ==
  /\ dep[c].pc = "reposGet"
  /\ dep' = [dep EXCEPT ![c] = Issue(@, "defaultGetRef")]
  /\ UNCHANGED ghRef
  /\ DeployFrame

\* ensureBranchExists: the default branch's tip is known, the branch is created
DefaultGetRefOk(c) ==
  /\ dep[c].pc = "defaultGetRef"
  /\ dep' = [dep EXCEPT ![c] = Issue(@, "createRef")]
  /\ UNCHANGED ghRef
  /\ DeployFrame

\* ensureBranchExists: createRef succeeds (the remote refuses to create a
\* reference that exists), then deploy reads the branch's ref
CreateRefOk(c) ==
  /\ dep[c].pc = "createRef"
  /\ ghRef = <<>>
  /\ ghRef' = <<DefaultTip>>
  /\ dep' = [dep EXCEPT ![c] = Issue(@, "getRef")]
  /\ DeployFrame

\* deploy: the branch's tip is read, its commit is asked for
GetRefOk(c) ==
  /\ dep[c].pc = "getRef"
  /\ ghRef # <<>>
  /\ dep' = [dep EXCEPT ![c] = Issue([@ EXCEPT !.currentCommitSha = ghRef], "getCommit")]
  /\ UNCHANGED ghRef
  /\ DeployFrame

\* files.map(async ...) runs every callback up to its await: one createBlob per
\* file is issued, in the order of the list
IssueBlobs(d) ==
  [d EXCEPT !.pc = "createBlob",
            !.pending = 1..Len(d.files),
            !.calls = @ \o [i \in 1..Len(d.files) |-> "createBlob"]]

\* deploy: the tip's tree is known, the blobs are created
GetCommitOk(c) ==
  /\ dep[c].pc = "getCommit"
  /\ dep' = [dep EXCEPT ![c] =
               IssueBlobs([@ EXCEPT !.baseTreeSha = <<dep[c].currentCommitSha[1].tree>>])]
  /\ UNCHANGED ghRef
  /\ DeployFrame

\* the tree entry of one file
TreeItem(basePath, file) ==
  [ path |-> BackslashToSlash(PathJoin(basePath, file.path)),
    mode |-> "100644", type |-> "blob",
    sha |-> Blob(file.content, IF file.encoding = "base64" THEN "base64" ELSE "utf-8") ]

\* a plausible slip: the entries are collected in another order than the files'
TreeItemsReversed(basePath, files) ==
  [i \in 1..Len(files) |-> TreeItem(basePath, files[Len(files) + 1 - i])]

\* what Promise.all resolves to: the entries in the order of the file list
TreeItems(basePath, files) ==
  [i \in 1..Len(files) |-> TreeItem(basePath, files[i])]

\* deploy: one createBlob is answered; when it was the last one, Promise.all
\* resolves and createTree is issued
CreateBlobOk(c, i) ==
  /\ dep[c].pc = "createBlob"
  /\ i \in dep[c].pending
  /\ dep' = [dep EXCEPT ![c] =
               IF dep[c].pending = {i}
                 THEN Issue([@ EXCEPT !.pending = {},
                                      !.treeItems = TreeItems(dep[c].basePath, dep[c].files)],
                            "createTree")
                 ELSE [@ EXCEPT !.pending = @ \ {i}]]
  /\ UNCHANGED ghRef
  /\ DeployFrame

\* a plausible slip: the tree is built from the entries alone
CreateTreeNoBase(baseTree, items) ==
  [p \in {items[i].path : i \in 1..Len(items)} |->
     items[CHOOSE i \in 1..Len(items) :
             /\ items[i].path = p
             /\ \A j \in 1..Len(items) : items[j].path = p => j <= i].sha]

\* the remote's createTree: the entries laid over base_tree, a later entry of the
\* same path replacing an earlier one
CreateTree(baseTree, items) ==
  [p \in DOMAIN baseTree \cup {items[i].path : i \in 1..Len(items)} |->
     IF \E i \in 1..Len(items) : items[i].path = p
       THEN items[CHOOSE i \in 1..Len(items) :
                    /\ items[i].path = p
                    /\ \A j \in 1..Len(items) : items[j].path = p => j <= i].sha
       ELSE baseTree[p]]

\* deploy: the new tree exists, the commit is created
CreateTreeOk(c) ==
  /\ dep[c].pc = "createTree"
  /\ dep' = [dep EXCEPT ![c] =
               Issue([@ EXCEPT !.newTree =
                        <<CreateTree(dep[c].baseTreeSha[1], dep[c].treeItems)>>],
                     "createCommit")]
  /\ UNCHANGED ghRef
  /\ DeployFrame

\* a plausible slip: the commit is created without naming its parent
CreateCommitOkNoParent(c) ==
  /\ dep[c].pc = "createCommit"
  /\ dep' = [dep EXCEPT ![c] =
               Issue([@ EXCEPT !.newCommit =
                        << [ tree |-> dep[c].newTree[1],
                             parents |-> <<>>,
                             message |-> <<"Add preview: ">> \o dep[c].creativeName ] >>],
                     "updateRef")]
  /\ UNCHANGED ghRef
  /\ DeployFrame

\* deploy: the commit exists, the branch's ref is updated
CreateCommitOk(c) ==
  /\ dep[c].pc = "createCommit"
  /\ dep' = [dep EXCEPT ![c] =
               Issue([@ EXCEPT !.newCommit =
                        << [ tree |-> dep[c].newTree[1],
                             parents |-> <<dep[c].currentCommitSha[1]>>,
                             message |-> <<"Add preview: ">> \o dep[c].creativeName ] >>],
                     "updateRef")]
  /\ UNCHANGED ghRef
  /\ DeployFrame

\* a plausible slip: the URL is built from the path as given
PreviewUrlRaw(e, d) ==
  IF e.customDomain # <<>>
    THEN <<"https://">> \o e.customDomain \o <<"/">> \o d.folderPath \o <<"/">>
    ELSE <<"https://">> \o e.owner \o <<".github.io/">> \o e.repo \o <<"/">>
           \o d.folderPath \o <<"/">>

\* deploy: previewUrl
PreviewUrl(e, d) ==
  IF e.customDomain # <<>>
    THEN <<"https://">> \o e.customDomain \o <<"/">> \o d.basePath \o <<"/">>
    ELSE <<"https://">> \o e.owner \o <<".github.io/">> \o e.repo \o <<"/">>
           \o d.basePath \o <<"/">>

\* commit a is commit b or one of its ancestors
RECURSIVE IsAncestor(_, _)
IsAncestor(a, b) == a = b \/ \E i \in 1..Len(b.parents) : IsAncestor(a, b.parents[i])

\* a plausible slip: the update is sent with force: true
FastForwardForced(ref, commit) == TRUE

\* git.updateRef is called without force: the remote moves the reference only
\* to a commit that has the reference's commit in its history
FastForward(ref, commit) == ref # <<>> /\ IsAncestor(ref[1], commit)

\* deploy: the remote takes the update, the result is returned
UpdateRefOk(c) ==
  /\ dep[c].pc = "updateRef"
  /\ FastForward(ghRef, dep[c].newCommit[1])
  /\ ghRef' = dep[c].newCommit
  /\ dep' = [dep EXCEPT ![c] =
               [@ EXCEPT !.pc = "done",
                         !.result = << [ success |-> TRUE,
                                         previewUrl |-> PreviewUrl(env, dep[c]),
                                         commitSha |-> dep[c].newCommit[1] ] >>]]
  /\ DeployFrame

\* one step of the deployment of caller c
DeployStep(c) ==
  \/ RemoteCallFails(c)
  \/ EnsureGetRefOk(c)
  \/ EnsureGetRefNotFound(c)
  \/ ReposGetOk(c)
  \/ DefaultGetRefOk(c)
  \/ CreateRefOk(c)
  \/ GetRefOk(c)
  \/ GetCommitOk(c)
  \/ \E i \in 1..Len(dep[c].files) : CreateBlobOk(c, i)
  \/ CreateTreeOk(c)
  \/ CreateCommitOk(c)
  \/ UpdateRefOk(c)

\* the arguments deploy is called with
CreativeNames == { <<"B"," ","1">> }
FolderPaths == { <<>>, <<"a","/","b">> }
FileLists == { <<FileI1>>, <<FileI1, FileP>>, <<FileI1, FileI2>> }

\* githubService.deploy is called
DeployCall(c, creativeName, folderPath, files) ==
  /\ dep[c].pc = "idle"
  /\ dep' = [dep EXCEPT ![c] = StartDeploy(creativeName, folderPath, files)]
  /\ UNCHANGED ghRef
  /\ DeployFrame

----------------------------------------------------------------------------
(* zipProcessor.extractZip *)

\* path.basename(p): the last segment, trailing separators ignored
Basename(p) ==
  LET segs == SelectSeq(SplitSlash(p), LAMBDA g : g # <<>>)
  IN IF segs = <<>> THEN <<>> ELSE segs[Len(segs)]

\* s.endsWith(suffix)
EndsWith(s, suffix) ==
  /\ Len(suffix) <= Len(s)
  /\ SubSeq(s, Len(s) - Len(suffix) + 1, Len(s)) = suffix

\* path.basename(p, ext): the extension is cut off unless it is the whole name
BasenameExt(p, ext) ==
  LET b == Basename(p)
  IN IF EndsWith(b, ext) /\ b # ext THEN SubSeq(b, 1, Len(b) - Len(ext)) ELSE b

\* path.extname(p): from the last dot of the base name, unless the name starts there
ExtName(p) ==
  LET b == Basename(p)
      dots == {i \in 1..Len(b) : b[i] = "."}
  IN IF dots = {} THEN <<>>
     ELSE LET last == CHOOSE i \in dots : \A j \in dots : j <= i
          IN IF last = 1 \/ b = <<".", ".">> THEN <<>> ELSE SubSeq(b, last, Len(b))

\* s.includes(sub)
Includes(s, sub) ==
  \E i \in 1..(Len(s) - Len(sub) + 1) : SubSeq(s, i, i + Len(sub) - 1) = sub

MacMarker == <<"_","_","M","A","C","O","S","X">>

binaryExtensions ==
  {
    <<".","p","n","g">>, <<".","j","p","g">>, <<".","j","p","e","g">>,
    <<".","g","i","f">>, <<".","w","e","b","p">>, <<".","s","v","g">>,
    <<".","i","c","o">>, <<".","m","p","4">>, <<".","w","e","b","m">>,
    <<".","m","p","3">>, <<".","w","a","v">>, <<".","o","g","g">>,
    <<".","w","o","f","f">>, <<".","w","o","f","f","2">>, <<".","t","t","f">>,
    <<".","e","o","t">>, <<".","o","t","f">>, <<".","p","d","f">>,
    <<".","z","i","p">>, <<".","e","x","e">>, <<".","b","i","n">> }

FileTypes ==
  {
    <<<<".","h","t","m","l">>, "html">>, <<<<".","h","t","m">>, "html">>,
    <<<<".","c","s","s">>, "css">>, <<<<".","j","s">>, "javascript">>,
    <<<<".","m","j","s">>, "javascript">>, <<<<".","p","n","g">>, "image">>,
    <<<<".","j","p","g">>, "image">>, <<<<".","j","p","e","g">>, "image">>,
    <<<<".","g","i","f">>, "image">>, <<<<".","w","e","b","p">>, "image">>,
    <<<<".","s","v","g">>, "image">>, <<<<".","i","c","o">>, "image">>,
    <<<<".","w","o","f","f">>, "font">>, <<<<".","w","o","f","f","2">>, "font">>,
    <<<<".","t","t","f">>, "font">>, <<<<".","e","o","t">>, "font">>,
    <<<<".","o","t","f">>, "font">>, <<<<".","j","s","o","n">>, "json">>,
    <<<<".","x","m","l">>, "xml">>, <<<<".","m","p","4">>, "video">>,
    <<<<".","w","e","b","m">>, "video">>, <<<<".","m","p","3">>, "audio">>,
    <<<<".","w","a","v">>, "audio">>, <<<<".","o","g","g">>, "audio">> }

\* getFileType
getFileType(ext) ==
  IF \E t \in FileTypes : t[1] = ext
    THEN (CHOOSE t \in FileTypes : t[1] = ext)[2]
    ELSE "other"

\* normalizeFilePath: leading separators removed, backslashes turned into slashes
normalizeFilePath(filePath) ==
  LET lead == {i \in 1..Len(filePath) :
                 \A j \in 1..i : filePath[j] \in {"/", "\\"}}
  IN BackslashToSlash(SubSeq(filePath, Cardinality(lead) + 1, Len(filePath)))

\* a plausible slip: directory entries are not skipped
SkippedEntryKeepsDirs(entry) ==
  \/ (Basename(entry.entryName) # <<>> /\ Basename(entry.entryName)[1] = ".")
  \/ Includes(entry.entryName, MacMarker)

\* the entry is skipped by the loop of extractZip
SkippedEntry(entry) ==
  \/ entry.isDirectory
  \/ (Basename(entry.entryName) # <<>> /\ Basename(entry.entryName)[1] = ".")
  \/ Includes(entry.entryName, MacMarker)

\* the FileRecord extractZip pushes for an entry
FileRecordOf(entry) ==
  LET ext == toLowerCase(ExtName(entry.entryName))
  IN [ path |-> normalizeFilePath(entry.entryName),
       content |-> entry.data,
       encoding |-> IF ext \in binaryExtensions THEN "base64" ELSE "utf-8",
       type |-> getFileType(ext) ]

\* extractZip before validateStructure: the records of the entries not skipped,
\* in the archive's order
ExtractedFiles(entries) ==
  LET kept == SelectSeq(entries, LAMBDA e : ~SkippedEntry(e))
  IN [i \in 1..Len(kept) |-> FileRecordOf(kept[i])]

\* a plausible slip: the list is not looked at
EmptyArchiveNever(files) == FALSE

\* validateStructure throws for an empty list
EmptyArchive(files) == files = <<>>

\* extractZip: the files, or the error validateStructure throws
extractZip(entries) ==
  IF EmptyArchive(ExtractedFiles(entries))
    THEN [threw |-> TRUE, error |-> <<"ZIP file is empty or contains no valid files">>,
          files |-> <<>>]
    ELSE [threw |-> FALSE, error |-> <<>>, files |-> ExtractedFiles(entries)]

----------------------------------------------------------------------------
(* parseCreativeName (routes/api.js) *)

DigitSet == Range(DigitChars)
LetterSet == UpperSet \cup Range(LowerChars)
UpperOf == [c \in Range(LowerChars) |-> UpperChars[CHOOSE i \in 1..26 : LowerChars[i] = c]]

\* String.prototype.toUpperCase
toUpperCase(s) == [i \in 1..Len(s) |-> IF s[i] \in DOMAIN UpperOf THEN UpperOf[s[i]] ELSE s[i]]

\* the character at position i, "" past the ends
At(s, i) == IF i \in 1..Len(s) THEN s[i] ELSE ""

\* the character class [_\-]
IsSep(c) == c \in {"_", "-"}

\* k digits stand at position i
DigitsAt(s, i, k) == \A j \in i..(i + k - 1) : At(s, j) \in DigitSet

\* parseInt of a string of digits
RECURSIVE ParseIntFrom(_, _, _)
ParseIntFrom(ds, i, acc) ==
  IF i > Len(ds) THEN acc
  ELSE ParseIntFrom(ds, i + 1,
                    acc * 10 + ((CHOOSE d \in 1..10 : DigitChars[d] = ds[i]) - 1))
parseInt(ds) == ParseIntFrom(ds, 1, 0)

\* /(\d{2,4})x(\d{2,4})/i at position i: the lengths of the two groups, <<>>
\* when it does not match there; the second group is as long as it can be
SizeAt(s, i) ==
  LET ws == {k \in 2..4 : DigitsAt(s, i, k) /\ At(s, i + k) \in {"x", "X"}}
  IN IF ws = {} THEN <<>>
     ELSE LET k == CHOOSE w \in ws : TRUE
              hs == {m \in 2..4 : DigitsAt(s, i + k + 1, m)}
          IN IF hs = {} THEN <<>>
             ELSE <<k, CHOOSE m \in hs : \A n \in hs : n <= m>>

\* name.match(/(\d{2,4})x(\d{2,4})/i): the leftmost match, <<>> when there is none
sizeMatch(s) ==
  LET at == {i \in 1..Len(s) : SizeAt(s, i) # <<>>}
  IN IF at = {} THEN <<>>
     ELSE LET i == CHOOSE j \in at : \A k \in at : j <= k
              g == SizeAt(s, i)
          IN << [ index |-> i,
                  text |-> SubSeq(s, i, i + g[1] + g[2]),
                  w |-> SubSeq(s, i, i + g[1] - 1),
                  h |-> SubSeq(s, i + g[1] + 1, i + g[1] + g[2]) ] >>

\* two letters stand at position i
LettersAt(s, i) == At(s, i) \in LetterSet /\ At(s, i + 1) \in LetterSet

\* /[_\-]([A-Z]{2}(?:[_\-][A-Z]{2})?)[_\-]/i at position i: the length of the
\* group, 0 when it does not match there; the optional part is taken when the
\* rest still matches
LocaleMidAt(s, i) ==
  IF ~(IsSep(At(s, i)) /\ LettersAt(s, i + 1)) THEN 0
  ELSE IF IsSep(At(s, i + 3)) /\ LettersAt(s, i + 4) /\ IsSep(At(s, i + 6)) THEN 5
  ELSE IF IsSep(At(s, i + 3)) THEN 2
  ELSE 0

\* /[_\-]([A-Z]{2}(?:[_\-][A-Z]{2})?)$/i at position i
LocaleEndAt(s, i) ==
  IF ~(IsSep(At(s, i)) /\ LettersAt(s, i + 1)) THEN 0
  ELSE IF IsSep(At(s, i + 3)) /\ LettersAt(s, i + 4) /\ i + 5 = Len(s) THEN 5
  ELSE IF i + 2 = Len(s) THEN 2
  ELSE 0

\* the length of the group one of the two patterns matches at position i
LocaleAt(s, i, atEnd) == IF atEnd THEN LocaleEndAt(s, i) ELSE LocaleMidAt(s, i)

\* the leftmost match of one of the two patterns, <<>> when there is none
LeftmostGroup(s, atEnd) ==
  LET at == {i \in 1..Len(s) : LocaleAt(s, i, atEnd) > 0}
  IN IF at = {} THEN <<>>
     ELSE LET i == CHOOSE j \in at : \A k \in at : j <= k
          IN << [index |-> i, group |-> SubSeq(s, i + 1, i + LocaleAt(s, i, atEnd))] >>

\* name.match(/...[_\-]/i) || name.match(/...$/i)
localeMatch(s) ==
  IF LeftmostGroup(s, FALSE) # <<>> THEN LeftmostGroup(s, FALSE)
  ELSE LeftmostGroup(s, TRUE)

\* s without the k characters from position i on
Without(s, i, k) == SubSeq(s, 1, i - 1) \o SubSeq(s, i + k, Len(s))

\* baseName.replace(text, ''): the first occurrence of the text is removed
RemoveFirst(s, text) ==
  LET at == {i \in 1..(Len(s) - Len(text) + 1) : SubSeq(s, i, i + Len(text) - 1) = text}
  IN IF at = {} THEN s
     ELSE Without(s, CHOOSE j \in at : \A k \in at : j <= k, Len(text))

\* the text stands at position i, letters compared without case
TextAtNoCase(s, i, text) ==
  /\ i >= 1 /\ i + Len(text) - 1 <= Len(s)
  /\ toLowerCase(SubSeq(s, i, i + Len(text) - 1)) = toLowerCase(text)

\* baseName.replace(new RegExp(`[_\\-]?${group}`, 'i'), ''): the leftmost match
\* of the group's text, with the separator before it when there is one
RemoveLocale(s, group) ==
  LET hit(i) == \/ (IsSep(At(s, i)) /\ TextAtNoCase(s, i + 1, group))
                \/ TextAtNoCase(s, i, group)
      at == {i \in 1..Len(s) : hit(i)}
  IN IF at = {} THEN s
     ELSE LET i == CHOOSE j \in at : \A k \in at : j <= k
          IN IF IsSep(At(s, i)) /\ TextAtNoCase(s, i + 1, group)
               THEN Without(s, i, 1 + Len(group))
               ELSE Without(s, i, Len(group))

\* .replace(/[_\-]+/g, '_')
CollapseSeps(s) ==
  Kept([i \in 1..Len(s) |-> IF IsSep(s[i]) THEN "_" ELSE s[i]],
       [i \in 1..Len(s) |-> ~IsSep(s[i]) \/ i = 1 \/ ~IsSep(s[i-1])])

\* .replace(/^[_\-]+|[_\-]+$/g, '')
TrimSeps(s) ==
  LET inner == {i \in 1..Len(s) : ~IsSep(s[i])}
  IN IF inner = {} THEN <<>>
     ELSE SubSeq(s, CHOOSE i \in inner : \A j \in inner : i <= j,
                    CHOOSE i \in inner : \A j \in inner : j <= i)

\* `${n}`: the decimal digits of a number
RECURSIVE NumberString(_)
NumberString(n) ==
  IF n < 10 THEN <<DigitChars[n + 1]>>
  ELSE Append(NumberString(n \div 10), DigitChars[(n % 10) + 1])

\* ... || 'Creative'
OrCreative(baseName) == IF baseName # <<>> THEN baseName ELSE <<"Creative">>

\* if (sizeMatch) baseName = baseName.replace(sizeMatch[0], '')
RemoveSize(baseName, sm) == IF sm # <<>> THEN RemoveFirst(baseName, sm[1].text) ELSE baseName

\* if (localeMatch) baseName = baseName.replace(new RegExp(...), '')
RemoveLocaleOf(baseName, lm) == IF lm # <<>> THEN RemoveLocale(baseName, lm[1].group) ELSE baseName

\* the object parseCreativeName returns, given its two matches; null is <<>>,
\* a number n is <<n>>
Parsed(name, sm, lm) ==
  [ width |-> IF sm # <<>> THEN <<parseInt(sm[1].w)>> ELSE <<>>,
    height |-> IF sm # <<>> THEN <<parseInt(sm[1].h)>> ELSE <<>>,
    locale |-> IF lm # <<>> THEN toUpperCase(lm[1].group) ELSE <<"Default">>,
    baseName |-> OrCreative(TrimSeps(CollapseSeps(RemoveLocaleOf(RemoveSize(name, sm), lm)))),
    sizeStr |-> IF sm # <<>>
                  THEN <<NumberString(parseInt(sm[1].w)) \o <<"×">>
                           \o NumberString(parseInt(sm[1].h))>>
                  ELSE <<>> ]

parseCreativeName(name) == Parsed(name, sizeMatch(name), localeMatch(name))

----------------------------------------------------------------------------
(* groupCreativesBySize (routes/api.js) *)

\* !width: null and 0 are falsy
Falsy(width) == width = <<>> \/ width[1] = 0

\* the comparator handed to sort
Compare(a, b) ==
  IF Falsy(a.width) THEN 1
  ELSE IF Falsy(b.width) THEN -1
  ELSE (b.width[1] * b.height[1]) - (a.width[1] * a.height[1])

\* Array.prototype.sort on a short array: each element in turn is moved left
\* past the elements the comparator puts after it (stable insertion, the
\* comparator called with the later element first)
RECURSIVE InsertAt(_, _, _)
InsertAt(sorted, g, k) ==
  IF k = 0 \/ Compare(g, sorted[k]) >= 0
    THEN SubSeq(sorted, 1, k) \o <<g>> \o SubSeq(sorted, k + 1, Len(sorted))
    ELSE InsertAt(sorted, g, k - 1)
RECURSIVE SortFrom(_, _, _)
SortFrom(gs, i, sorted) ==
  IF i > Len(gs) THEN sorted
  ELSE CHOOSE out \in {SortFrom(gs, i + 1, next) :
                          next \in {InsertAt(sorted, gs[i], Len(sorted))}} : TRUE
SortGroups(gs) == SortFrom(gs, 1, <<>>)

Other == <<"O","t","h","e","r">>

\* parsed.sizeStr || 'Other'
SizeKeyOf(parsed) == IF parsed.sizeStr # <<>> THEN parsed.sizeStr[1] ELSE Other
SizeKey(creativeName) == SizeKeyOf(parseCreativeName(creativeName))

\* the groups with one for the key when there was none
WithGroup(groups, parsed) ==
  IF \E j \in 1..Len(groups) : groups[j].size = SizeKeyOf(parsed) THEN groups
  ELSE Append(groups, [ size |-> SizeKeyOf(parsed), width |-> parsed.width,
                        height |-> parsed.height, creatives |-> <<>> ])

\* groups[sizeKey].creatives.push(entry)
PushCreative(groups, sizeKey, entry) ==
  [j \in 1..Len(groups) |->
     IF groups[j].size = sizeKey
       THEN [groups[j] EXCEPT !.creatives = Append(@, entry)]
       ELSE groups[j]]

\* the body of creatives.forEach, given the parsed name: groups is the list
\* of Object.values(groups), which keeps the keys in the order they were first
\* set (no key is an array index)
AddParsed(groups, c, parsed) ==
  PushCreative(WithGroup(groups, parsed), SizeKeyOf(parsed),
               [ creativeName |-> c.creativeName,
                 locale |-> parsed.locale,
                 baseName |-> parsed.baseName,
                 slug |-> ReplaceNonAlnumRuns(toLowerCase(c.creativeName)) ])

AddCreative(groups, c) == AddParsed(groups, c, parseCreativeName(c.creativeName))

RECURSIVE GroupFrom(_, _, _)
GroupFrom(creatives, i, groups) ==
  IF i > Len(creatives) THEN groups
  ELSE CHOOSE out \in {GroupFrom(creatives, i + 1, next) :
                          next \in {AddCreative(groups, creatives[i])}} : TRUE

\* Object.values(groups).sort(...)
groupCreativesBySize(creatives) ==
  CHOOSE out \in {SortGroups(groups) : groups \in {GroupFrom(creatives, 1, <<>>)}} : TRUE

----------------------------------------------------------------------------
(* The request handlers generate-preview and generate-batch (routes/api.js) *)

\* the ZIPs of the upload directory, by fileId: their entries
HtmlEntry == [entryName |-> <<"i",".","h","t","m","l">>, isDirectory |-> FALSE, data |-> "c1"]
PngEntry == [entryName |-> <<"g","/","p",".","p","n","g">>, isDirectory |-> FALSE, data |-> "c3"]
DirEntry == [entryName |-> <<"g","/">>, isDirectory |-> TRUE, data |-> ""]
HiddenEntry == [entryName |-> <<".","d">>, isDirectory |-> FALSE, data |-> "c0"]
ArchiveOf ==
  [ f1 |-> <<HtmlEntry>>,
    f2 |-> <<DirEntry, PngEntry, HiddenEntry, HtmlEntry>>,
    f0 |-> <<HiddenEntry>> ]
FileIds == DOMAIN ArchiveOf

\* the files the template generator adds to the extracted ones
Templates ==
  << [path |-> <<"v",".","h","t","m","l">>, content |-> "preview", encoding |-> "utf-8",
      type |-> "html"] >>

\* creativeName.toLowerCase().replace(/\s+/g, '-')
SpacesToHyphen(s) ==
  Kept([i \in 1..Len(s) |-> IF s[i] = " " THEN "-" ELSE s[i]],
       [i \in 1..Len(s) |-> s[i] # " " \/ i = 1 \/ s[i-1] # " "])

\* c.creativeName.toLowerCase().replace(/[^a-z0-9]+/g, '-')
CreativeSlug(name) == ReplaceNonAlnumRuns(toLowerCase(name))

\* clients.find(c => c.id === clientId), as a list of at most one client
FindClient(clientId) ==
  SelectSeq(clients, LAMBDA c : c.id = clientId)

\* campaigns[clientId]?.find(c => c.id === campaignId), as a list of at most one
FindCampaign(clientId, campaignId) ==
  SelectSeq(CampaignsOf(clientId), LAMBDA c : c.id = campaignId)

IdleRequest ==
  [ kind |-> "none", pc |-> "idle", body |-> <<>>, idx |-> 0, target |-> <<>>,
    creativeName |-> <<>>, results |-> <<>>, errors |-> <<>>, campaignUrl |-> <<>>,
    client |-> <<>>, campaign |-> <<>>, response |-> <<>> ]

\* what every step of a request leaves alone
ApiFrame == UNCHANGED <<env, sanVars, tblVars, now>>

\* a plausible slip: the status is left at its default
RespondNoStatus(rq, status, error) ==
  [rq EXCEPT !.pc = "responded", !.response = <<[status |-> 200, error |-> error]>>]

\* res.status(status).json({ error })
Respond(rq, status, error) ==
  [rq EXCEPT !.pc = "responded", !.response = <<[status |-> status, error |-> error]>>]

\* a plausible slip: the record is appended to the list
AddPreviewAtEnd(list, preview) == Append(list, preview)

\* previews.unshift(preview)
AddPreview(list, preview) == <<preview>> \o list

\* generate-preview: targetPath
PreviewTarget(body) ==
  IF body.folderPath # <<>> THEN body.folderPath
  ELSE IF /\ body.clientId # <<>> /\ body.campaignId # <<>>
          /\ FindClient(body.clientId) # <<>>
          /\ FindCampaign(body.clientId, body.campaignId) # <<>>
    THEN FindClient(body.clientId)[1].slug \o <<"/">>
           \o FindCampaign(body.clientId, body.campaignId)[1].slug \o <<"/">>
           \o CreativeSlug(body.creativeName)
  ELSE SpacesToHyphen(toLowerCase(body.creativeName))

\* clientName || clients.find(c => c.id === clientId)?.name || ''
PreviewClientName(body) ==
  IF body.clientName # <<>> THEN body.clientName
  ELSE IF FindClient(body.clientId) # <<>> THEN FindClient(body.clientId)[1].name
  ELSE <<>>

\* router.post('/generate-preview') up to its first await on the remote service:
\* validation, extraction, template generation (which may throw), deploy called
GeneratePreview(r, body, templatesThrow) ==
  /\ req[r].pc = "idle"
  /\ LET rq == [IdleRequest EXCEPT !.kind = "preview", !.body = body]
         files == ExtractedFiles(ArchiveOf[body.fileId])
     IN IF body.fileId = "" \/ body.creativeName = <<>>
          THEN /\ req' = [req EXCEPT ![r] = Respond(rq, 400, <<"Missing required fields">>)]
               /\ UNCHANGED dep
          ELSE IF body.fileId \notin uploads
            THEN /\ req' = [req EXCEPT ![r] = Respond(rq, 404, <<"Uploaded file not found">>)]
                 /\ UNCHANGED dep
          ELSE IF EmptyArchive(files)
            THEN /\ req' = [req EXCEPT ![r] =
                              Respond(rq, 500, <<"ZIP file is empty or contains no valid files">>)]
                 /\ UNCHANGED dep
          ELSE IF templatesThrow
            THEN /\ req' = [req EXCEPT ![r] = Respond(rq, 500, <<"template generation failed">>)]
                 /\ UNCHANGED dep
          ELSE /\ req' = [req EXCEPT ![r] =
                            [rq EXCEPT !.pc = "deploying",
                                       !.target = PreviewTarget(body),
                                       !.creativeName = body.creativeName]]
               /\ dep' = [dep EXCEPT ![r] =
                            StartDeploy(body.creativeName, PreviewTarget(body),
                                        files \o Templates)]
  /\ UNCHANGED <<previews, uploads, ghRef>>
  /\ ApiFrame

\* the preview record of generate-preview
PreviewRecord(r) ==
  [ id |-> Len(previews) + 1,
    creativeName |-> req[r].body.creativeName,
    folderPath |-> req[r].target,
    description |-> req[r].body.description,
    clientName |-> PreviewClientName(req[r].body),
    clientId |-> req[r].body.clientId,
    campaignId |-> req[r].body.campaignId,
    url |-> dep[r].result[1].previewUrl,
    status |-> "ready",
    createdAt |-> now ]

\* generate-preview after deploy returned: the record is stored, the ZIP is
\* removed (unlinkSync throws when it is gone) and the response is sent
PreviewDeployed(r) ==
  /\ req[r].kind = "preview" /\ req[r].pc = "deploying"
  /\ dep[r].pc = "done"
  /\ previews' = AddPreview(previews, PreviewRecord(r))
  /\ IF req[r].body.fileId \in uploads
       THEN /\ uploads' = uploads \ {req[r].body.fileId}
            /\ req' = [req EXCEPT ![r] =
                         [@ EXCEPT !.pc = "responded",
                                   !.response = <<[ status |-> 200, success |-> TRUE,
                                                    previewUrl |-> dep[r].result[1].previewUrl,
                                                    preview |-> PreviewRecord(r) ]>>]]
       ELSE /\ UNCHANGED uploads
            /\ req' = [req EXCEPT ![r] = Respond(@, 500, <<"ENOENT: no such file">>)]
  /\ UNCHANGED <<dep, ghRef>>
  /\ ApiFrame

\* a plausible slip: the catch stores a record of the failed preview
PreviewDeployFailedStoring(r) ==
  /\ req[r].kind = "preview" /\ req[r].pc = "deploying"
  /\ dep[r].pc = "failed"
  /\ req' = [req EXCEPT ![r] = Respond(@, 500, dep[r].error)]
  /\ previews' = AddPreview(previews, [ id |-> Len(previews) + 1,
                                        creativeName |-> req[r].body.creativeName,
                                        folderPath |-> req[r].target,
                                        status |-> "failed", createdAt |-> now ])
  /\ UNCHANGED <<uploads, dep, ghRef>>
  /\ ApiFrame

\* generate-preview after deploy threw: the catch answers 500
PreviewDeployFailed(r) ==
  /\ req[r].kind = "preview" /\ req[r].pc = "deploying"
  /\ dep[r].pc = "failed"
  /\ req' = [req EXCEPT ![r] = Respond(@, 500, dep[r].error)]
  /\ UNCHANGED <<previews, uploads, dep, ghRef>>
  /\ ApiFrame

\* generate-batch: the validation of the request, <<>> when it passes
BatchInvalid(body) ==
  IF body.files = <<>> THEN <<"No files provided for batch processing">>
  ELSE IF body.clientId = <<>> \/ body.campaignId = <<>>
    THEN <<"Client and Campaign are required for batch upload">>
  ELSE IF FindClient(body.clientId) = <<>>
          \/ FindCampaign(body.clientId, body.campaignId) = <<>>
    THEN <<"Invalid client or campaign">>
  ELSE <<>>

\* router.post('/generate-batch'): validation, then the loop is entered
GenerateBatch(r, body) ==
  /\ req[r].pc = "idle"
  /\ LET rq == [IdleRequest EXCEPT !.kind = "batch", !.body = body]
     IN IF BatchInvalid(body) # <<>>
          THEN req' = [req EXCEPT ![r] = Respond(rq, 400, BatchInvalid(body))]
          ELSE req' = [req EXCEPT ![r] =
                         [rq EXCEPT !.pc = "item", !.idx = 1,
                                    !.client = FindClient(body.clientId)[1],
                                    !.campaign = FindCampaign(body.clientId,
                                                              body.campaignId)[1]]]
  /\ UNCHANGED <<previews, uploads, dep, ghRef>>
  /\ ApiFrame

\* errors.push({ fileId, filename, error })
PushError(rq, message) ==
  [rq EXCEPT !.errors = Append(@, [ fileId |-> rq.body.files[rq.idx].fileId,
                                    filename |-> rq.body.files[rq.idx].filename,
                                    error |-> message ])]

\* the loop goes on to the next file
NextFile(rq) == [rq EXCEPT !.pc = "item", !.idx = @ + 1]

ZipExt == <<".","z","i","p">>

\* generate-batch: targetPath of the current file
BatchTarget(rq) ==
  rq.client.slug \o <<"/">> \o rq.campaign.slug \o <<"/">>
    \o CreativeSlug(BasenameExt(rq.body.files[rq.idx].filename, ZipExt))

\* a plausible slip: the loop is left after its first pass
LoopDoneAfterFirst(rq) == rq.idx > 1

\* for (const file of files): every file has been taken
LoopDone(rq) == rq.idx > Len(rq.body.files)

\* generate-batch, one pass of the loop up to the await on the remote service:
\* the ZIP is looked for, extracted, the templates generated, deploy called
BatchItemBegin(r, templatesThrow) ==
  /\ req[r].kind = "batch" /\ req[r].pc = "item"
  /\ ~LoopDone(req[r])
  /\ LET rq == req[r]
         file == rq.body.files[rq.idx]
         creativeName == BasenameExt(file.filename, ZipExt)
         files == ExtractedFiles(ArchiveOf[file.fileId])
     IN IF file.fileId \notin uploads
          THEN /\ req' = [req EXCEPT ![r] = NextFile(PushError(rq, <<"File not found">>))]
               /\ UNCHANGED dep
          ELSE IF EmptyArchive(files)
            THEN /\ req' = [req EXCEPT ![r] =
                              NextFile(PushError(rq,
                                <<"ZIP file is empty or contains no valid files">>))]
                 /\ UNCHANGED dep
          ELSE IF templatesThrow
            THEN /\ req' = [req EXCEPT ![r] =
                              NextFile(PushError(rq, <<"template generation failed">>))]
                 /\ UNCHANGED dep
          ELSE /\ req' = [req EXCEPT ![r] =
                            [rq EXCEPT !.pc = "deploying",
                                       !.target = BatchTarget(rq),
                                       !.creativeName = creativeName]]
               /\ dep' = [dep EXCEPT ![r] =
                            StartDeploy(creativeName, BatchTarget(rq), files \o Templates)]
  /\ UNCHANGED <<previews, uploads, ghRef>>
  /\ ApiFrame

\* the preview record of generate-batch
BatchPreviewRecord(r) ==
  [ id |-> Len(previews) + 1,
    creativeName |-> req[r].creativeName,
    folderPath |-> req[r].target,
    description |-> req[r].body.description,
    clientName |-> req[r].client.name,
    clientId |-> req[r].body.clientId,
    campaignId |-> req[r].body.campaignId,
    url |-> dep[r].result[1].previewUrl,
    status |-> "ready",
    createdAt |-> now ]

\* generate-batch after deploy returned for the current file: the record is
\* stored, the result pushed, the ZIP removed; unlinkSync throwing (the ZIP is
\* gone) lands in the catch, which pushes an error for the same file
BatchItemDeployed(r) ==
  /\ req[r].kind = "batch" /\ req[r].pc = "deploying"
  /\ dep[r].pc = "done"
  /\ previews' = AddPreview(previews, BatchPreviewRecord(r))
  /\ LET file == req[r].body.files[req[r].idx]
         pushed == [req[r] EXCEPT !.results =
                      Append(@, [ fileId |-> file.fileId, filename |-> file.filename,
                                  creativeName |-> req[r].creativeName,
                                  previewUrl |-> dep[r].result[1].previewUrl,
                                  success |-> TRUE ])]
     IN IF file.fileId \in uploads
          THEN /\ uploads' = uploads \ {file.fileId}
               /\ req' = [req EXCEPT ![r] = NextFile(pushed)]
          ELSE /\ UNCHANGED uploads
               /\ req' = [req EXCEPT ![r] =
                            NextFile(PushError(pushed, <<"ENOENT: no such file">>))]
  /\ UNCHANGED <<dep, ghRef>>
  /\ ApiFrame

\* generate-batch after deploy threw for the current file
BatchItemFailed(r) ==
  /\ req[r].kind = "batch" /\ req[r].pc = "deploying"
  /\ dep[r].pc = "failed"
  /\ req' = [req EXCEPT ![r] = NextFile(PushError(@, dep[r].error))]
  /\ UNCHANGED <<previews, uploads, dep, ghRef>>
  /\ ApiFrame

\* the page generateCampaignIndex renders, by what it lists
IndexHtml(client, campaign, creatives) ==
  [ page |-> "campaign-index",
    creatives |-> [i \in 1..Len(creatives) |->
                     [ creativeName |-> creatives[i].creativeName,
                       slug |-> CreativeSlug(creatives[i].creativeName) ]] ]

\* generate-batch after the loop: campaignUrl, then generateCampaignIndex up
\* to the await on the remote service
BatchIndexBegin(r) ==
  /\ req[r].kind = "batch" /\ req[r].pc = "item"
  /\ LoopDone(req[r])
  /\ req' = [req EXCEPT ![r] =
               [@ EXCEPT !.pc = "indexing",
                         !.campaignUrl = <<"https://">> \o env.owner \o <<".github.io/">>
                                           \o env.repo \o <<"/">> \o req[r].client.slug
                                           \o <<"/">> \o req[r].campaign.slug \o <<"/">>]]
  /\ dep' = [dep EXCEPT ![r] =
               StartDeploy(<<"Campaign Index">>,
                           req[r].client.slug \o <<"/">> \o req[r].campaign.slug,
                           << [ path |-> <<"i","n","d","e","x",".","h","t","m","l">>,
                                content |-> IndexHtml(req[r].client, req[r].campaign,
                                                      req[r].results),
                                encoding |-> "utf-8", type |-> "html" ] >>)]
  /\ UNCHANGED <<previews, uploads, ghRef>>
  /\ ApiFrame

\* a plausible slip: a failed index deployment fails the batch
BatchRespondIndexFails(r) ==
  /\ req[r].kind = "batch" /\ req[r].pc = "indexing"
  /\ dep[r].pc \in {"done", "failed"}
  /\ req' = [req EXCEPT ![r] =
               IF dep[r].pc = "failed" THEN Respond(@, 500, dep[r].error)
               ELSE [@ EXCEPT !.pc = "responded",
                              !.response = <<[ status |-> 200, success |-> TRUE,
                                               campaignUrl |-> req[r].campaignUrl,
                                               processed |-> Len(req[r].results),
                                               failed |-> Len(req[r].errors),
                                               results |-> req[r].results,
                                               errors |-> IF Len(req[r].errors) > 0
                                                            THEN <<req[r].errors>>
                                                            ELSE <<>> ]>>]]
  /\ UNCHANGED <<previews, uploads, dep, ghRef>>
  /\ ApiFrame

\* generate-batch: the index deployment returned or threw (the catch only
\* logs); the response is sent, its errors undefined (here <<>>) when there
\* are none and the list (here <<list>>) otherwise
BatchRespond(r) ==
  /\ req[r].kind = "batch" /\ req[r].pc = "indexing"
  /\ dep[r].pc \in {"done", "failed"}
  /\ req' = [req EXCEPT ![r] =
               [@ EXCEPT !.pc = "responded",
                         !.response = <<[ status |-> 200, success |-> TRUE,
                                          campaignUrl |-> req[r].campaignUrl,
                                          processed |-> Len(req[r].results),
                                          failed |-> Len(req[r].errors),
                                          results |-> req[r].results,
                                          errors |-> IF Len(req[r].errors) > 0
                                                       THEN <<req[r].errors>>
                                                       ELSE <<>> ]>>]]
  /\ UNCHANGED <<previews, uploads, dep, ghRef>>
  /\ ApiFrame

\* router.get('/previews'): the list as it is
GetPreviews == [success |-> TRUE, previews |-> previews, count |-> Len(previews)]

----------------------------------------------------------------------------
(* Specifications *)

TblInit ==
  /\ clients = SeedClients
  /\ campaigns = [c \in {} |-> <<>>]
  /\ tblResp = [op |-> "none"]
  /\ now = 0

GitIdle ==
  /\ env = FullEnv
  /\ ghRef = <<>>
  /\ dep = [c \in Callers |-> IdleDeploy]

ApiIdle ==
  /\ previews = <<>>
  /\ uploads = {}
  /\ req = [r \in Callers |-> IdleRequest]

\* no function is being called on its own
FnIdle == fnIn = <<>> /\ fnOut = <<>>

\* sanitizePath on every string of SanInputs, applied twice
InitSanitize == SanInit /\ FnIdle /\ TblInit /\ GitIdle /\ ApiIdle
NextSanitize == SanitizeAgain
SpecSanitize == InitSanitize /\ [][NextSanitize]_vars

\* the clients and campaigns endpoints, requests in any order
InitTables == sanIn = <<>> /\ sanOut = <<>> /\ FnIdle /\ TblInit /\ GitIdle /\ ApiIdle
NextTables ==
  \/ \E body \in Bodies(ClientNames) : PostClients(body)
  \/ \E cid \in ClientIdParams, body \in Bodies(CampaignNames) : PostCampaigns(cid, body)
  \/ Tick
SpecTables == InitTables /\ [][NextTables]_vars

\* githubService.deploy called by up to MaxCallers callers, under every
\* configuration, with and without a gh-pages branch
InitDeploy ==
  /\ sanIn = <<>> /\ sanOut = <<>> /\ FnIdle
  /\ TblInit
  /\ ApiIdle
  /\ env \in Envs
  /\ ghRef \in { <<>>, <<PagesTip>> }
  /\ dep = [c \in Callers |-> IdleDeploy]
NextDeploy ==
  \/ \E c \in Callers, n \in CreativeNames, f \in FolderPaths, l \in FileLists :
       DeployCall(c, n, f, l)
  \/ \E c \in Callers : DeployStep(c)
SpecDeploy == InitDeploy /\ [][NextDeploy]_vars

\* the campaign POST /api/clients/nike/campaigns {name: "Summer 25"} stores
SummerCampaign ==
  [ id |-> NikeId \o <<"-">> \o Slugify(<<"S","u","m","m","e","r"," ","2","5">>),
    name |-> <<"S","u","m","m","e","r"," ","2","5">>,
    slug |-> Slugify(<<"S","u","m","m","e","r"," ","2","5">>),
    clientId |-> NikeId, createdAt |-> 0 ]

\* the bodies of the generate-preview requests tried
PreviewBody(fileId, creativeName, folderPath, clientId, campaignId) ==
  [ fileId |-> fileId, creativeName |-> creativeName, folderPath |-> folderPath,
    description |-> <<>>, clientName |-> <<>>, clientId |-> clientId,
    campaignId |-> campaignId ]
PreviewBodies ==
  { PreviewBody("f1", <<"B"," ","1">>, <<>>, NikeId, SummerCampaign.id),
    PreviewBody("f0", <<"B"," ","1">>, <<>>, <<>>, <<>>),
    PreviewBody("", <<"B"," ","1">>, <<>>, <<>>, <<>>),
    PreviewBody("f1", <<>>, <<>>, <<>>, <<>>) }

\* the bodies of the generate-batch requests tried
BatchFile(fileId, filename) == [fileId |-> fileId, filename |-> filename]
BatchBody(files, clientId, campaignId) ==
  [ files |-> files, description |-> <<>>, clientId |-> clientId,
    campaignId |-> campaignId ]
B1Zip == <<"B","1",".","z","i","p">>
C2Zip == <<"C","2",".","z","i","p">>
BatchBodies ==
  { BatchBody(<<BatchFile("f1", B1Zip), BatchFile("f0", C2Zip)>>, NikeId, SummerCampaign.id),
    BatchBody(<<BatchFile("f0", C2Zip), BatchFile("f1", B1Zip)>>, NikeId, SummerCampaign.id),
    BatchBody(<<BatchFile("f1", B1Zip)>>, NikeId, <<>>) }

\* one step of request r after it was received
RequestStep(r) ==
  \/ PreviewDeployed(r)
  \/ PreviewDeployFailed(r)
  \/ \E t \in BOOLEAN : BatchItemBegin(r, t)
  \/ BatchItemDeployed(r)
  \/ BatchItemFailed(r)
  \/ BatchIndexBegin(r)
  \/ BatchRespond(r)

\* at most MaxBatches of the requests are generate-batch requests
MaxBatches == 1
BatchAllowed == Cardinality({q \in Callers : req[q].kind = "batch"}) < MaxBatches

\* the earlier callers have been heard from: callers are taken in order
InOrder(r) == \A q \in Callers : q < r => req[q].pc # "idle"

\* generate-preview and generate-batch requests, up to MaxCallers of them in
\* flight together, after one campaign was created and the ZIPs were uploaded
InitApi ==
  /\ sanIn = <<>> /\ sanOut = <<>> /\ FnIdle
  /\ clients = SeedClients
  /\ campaigns = (NikeId :> <<SummerCampaign>>)
  /\ tblResp = [op |-> "none"]
  /\ now = 0
  /\ env = FullEnv
  /\ ghRef = <<>>
  /\ dep = [c \in Callers |-> IdleDeploy]
  /\ previews = <<>>
  /\ uploads = FileIds
  /\ req = [r \in Callers |-> IdleRequest]
NextApi ==
  \/ \E r \in Callers, body \in PreviewBodies, t \in BOOLEAN :
       InOrder(r) /\ GeneratePreview(r, body, t)
  \/ \E r \in Callers, body \in BatchBodies :
       InOrder(r) /\ BatchAllowed /\ GenerateBatch(r, body)
  \/ \E r \in Callers : RequestStep(r)
  \/ \E r \in Callers : req[r].pc \in {"deploying", "indexing"} /\ DeployStep(r)
  \/ Tick
SpecApi == InitApi /\ [][NextApi]_vars

\* the entries the archives tried are made of
MacEntry ==
  [entryName |-> MacMarker \o <<"/","a">>, isDirectory |-> FALSE, data |-> "c4"]
SlashEntry ==
  [entryName |-> <<"/","\\","s","\\","j",".","J","S">>, isDirectory |-> FALSE, data |-> "c5"]
DotDirEntry ==
  [entryName |-> <<".","g","/","c">>, isDirectory |-> FALSE, data |-> "c6"]
EntryKinds == {HtmlEntry, PngEntry, DirEntry, HiddenEntry, MacEntry, SlashEntry, DotDirEntry}
MaxEntries == 3
Archives == SeqsUpTo(EntryKinds, MaxEntries)

\* extractZip is called on the archive
ExtractCall ==
  /\ fnOut = <<>>
  /\ fnOut' = <<extractZip(fnIn)>>
  /\ UNCHANGED <<fnIn, sanIn, sanOut, tblVars, now, gitVars, apiVars>>

\* extractZip on every archive of Archives
InitExtract ==
  /\ sanIn = <<>> /\ sanOut = <<>>
  /\ fnIn \in Archives /\ fnOut = <<>>
  /\ TblInit /\ GitIdle /\ ApiIdle
NextExtract == ExtractCall
SpecExtract == InitExtract /\ [][NextExtract]_vars

\* the creative names parseCreativeName is called with: up to MaxTokens of
\* these pieces, one after the other
SizeLocaleMarker == <<"_","3","0","0","x","2","5","0","_","E","N","-","U","S">>
NameTokens ==
  { SizeLocaleMarker, <<"G","r","e","e","n">>, <<"_">>, <<"-">>,
    <<"1","2","x","3","4">>, <<"d","e">>, <<"v","2">>, <<"E","N">>,
    <<"7","2","8","x","9","0">> }
MaxTokens == 3
RECURSIVE Concat(_)
Concat(ts) == IF ts = <<>> THEN <<>> ELSE Head(ts) \o Concat(Tail(ts))
ParseNames == {Concat(ts) : ts \in SeqsUpTo(NameTokens, MaxTokens)}

\* parseCreativeName is called on the name
ParseCall ==
  /\ fnOut = <<>>
  /\ fnOut' = <<parseCreativeName(fnIn)>>
  /\ UNCHANGED <<fnIn, sanIn, sanOut, tblVars, now, gitVars, apiVars>>

\* parseCreativeName on every name of ParseNames
InitParse ==
  /\ sanIn = <<>> /\ sanOut = <<>>
  /\ fnIn \in ParseNames /\ fnOut = <<>>
  /\ TblInit /\ GitIdle /\ ApiIdle
NextParse == ParseCall
SpecParse == InitParse /\ [][NextParse]_vars

\* the creatives groupCreativesBySize is called with
GroupNames ==
  { <<"G","r","e","e","n">>, <<"0","0","x","5","0">>,
    <<"3","0","0","x","2","5","0">>, <<"a","_","3","0","0","x","2","5","0">>,
    <<"7","2","8","x","9","0">>, <<"1","2","x","3","4">> }
MaxCreatives == 3
CreativeLists == SeqsUpTo({[creativeName |-> n] : n \in GroupNames}, MaxCreatives)

\* groupCreativesBySize is called on the list
GroupCall ==
  /\ fnOut = <<>>
  /\ fnOut' = <<groupCreativesBySize(fnIn)>>
  /\ UNCHANGED <<fnIn, sanIn, sanOut, tblVars, now, gitVars, apiVars>>

\* groupCreativesBySize on every list of CreativeLists
InitGroup ==
  /\ sanIn = <<>> /\ sanOut = <<>>
  /\ fnIn \in CreativeLists /\ fnOut = <<>>
  /\ TblInit /\ GitIdle /\ ApiIdle
NextGroup == GroupCall
SpecGroup == InitGroup /\ [][NextGroup]_vars

\* the target folders and the entry names the paths of a deployment are
\* computed for: up to MaxSegments segments joined by '/'
TargetFolders == { <<"a","/","b">>, <<"B"," ","1">> }
PathSegments == { <<".",".">>, <<".">>, <<"x">>, <<"g">> }
MaxSegments == 3
EntryNames == {JoinSlash(segs) : segs \in SeqsUpTo(PathSegments, MaxSegments) \ {<<>>}}

\* the paths a deployment to the target folder hands to createTree for an
\* archive: extractZip, then deploy's files.map; <<>> when extractZip throws
WrittenPaths(target, entries) ==
  IF extractZip(entries).threw THEN <<>>
  ELSE [i \in 1..Len(extractZip(entries).files) |->
          TreeItem(sanitizePath(target), extractZip(entries).files[i]).path]

\* an archive with one entry is extracted and deployed to the target folder
WritePaths ==
  /\ fnOut = <<>>
  /\ fnOut' = <<WrittenPaths(fnIn.target,
                             <<[entryName |-> fnIn.entryName, isDirectory |-> FALSE,
                                data |-> "c1"]>>)>>
  /\ UNCHANGED <<fnIn, sanIn, sanOut, tblVars, now, gitVars, apiVars>>

\* the final paths for every target folder and entry name tried
InitPaths ==
  /\ sanIn = <<>> /\ sanOut = <<>>
  /\ fnIn \in [target : TargetFolders, entryName : EntryNames] /\ fnOut = <<>>
  /\ TblInit /\ GitIdle /\ ApiIdle
NextPaths == WritePaths
SpecPaths == InitPaths /\ [][NextPaths]_vars

----------------------------------------------------------------------------
(* generate-batch requests for one campaign, one after the other *)

\* the bodies of the requests: one creative each, and one without files
CampaignBodies ==
  { BatchBody(<<BatchFile("f1", B1Zip)>>, NikeId, SummerCampaign.id),
    BatchBody(<<BatchFile("f2", C2Zip)>>, NikeId, SummerCampaign.id),
    BatchBody(<<>>, NikeId, SummerCampaign.id) }

\* the configurations: GitHub Pages' own address, or a custom domain
CampaignEnvs == { FullEnv, [FullEnv EXCEPT !.customDomain = DomainName] }

\* the earlier requests have been answered
Sequential(r) == \A q \in Callers : q < r => req[q].pc = "responded"

\* one step of the generate-batch request r after it was received
BatchStep(r) ==
  \/ \E t \in BOOLEAN : BatchItemBegin(r, t)
  \/ BatchItemDeployed(r)
  \/ BatchItemFailed(r)
  \/ BatchIndexBegin(r)
  \/ BatchRespond(r)

InitCampaign ==
  /\ sanIn = <<>> /\ sanOut = <<>> /\ FnIdle
  /\ clients = SeedClients
  /\ campaigns = (NikeId :> <<SummerCampaign>>)
  /\ tblResp = [op |-> "none"]
  /\ now = 0
  /\ env \in CampaignEnvs
  /\ ghRef = <<>>
  /\ dep = [c \in Callers |-> IdleDeploy]
  /\ previews = <<>>
  /\ uploads = FileIds
  /\ req = [r \in Callers |-> IdleRequest]
NextCampaign ==
  \/ \E r \in Callers, body \in CampaignBodies : Sequential(r) /\ GenerateBatch(r, body)
  \/ \E r \in Callers : BatchStep(r)
  \/ \E r \in Callers : req[r].pc \in {"deploying", "indexing"} /\ DeployStep(r)
SpecCampaign == InitCampaign /\ [][NextCampaign]_vars

----------------------------------------------------------------------------
(* the folder a batch creative is deployed to, and the folder the index links to *)

LinkAlphabet == {"B", "1", "!", "-", "_"}
LinkFilenames == {n \o ZipExt : n \in SeqsUpTo(LinkAlphabet, MaxLen) \ {<<>>}}

\* a generate-batch request of the seeded campaign at its only file
LinkRequest(filename) ==
  [IdleRequest EXCEPT !.kind = "batch", !.pc = "item", !.idx = 1,
                      !.body = BatchBody(<<BatchFile("f1", filename)>>, NikeId,
                                         SummerCampaign.id),
                      !.client = SeedClients[6], !.campaign = SummerCampaign]

\* the folder deploy writes the creative to (basePath), and the slug the index
\* page computes for the creative's result
LinkOf(filename) ==
  [ basePath |-> sanitizePath(BatchTarget(LinkRequest(filename))),
    slug |-> IndexHtml(SeedClients[6], SummerCampaign,
                       <<[creativeName |-> BasenameExt(filename, ZipExt)]>>)
               .creatives[1].slug ]

\* one creative is deployed and listed
LinkCreative ==
  /\ fnOut = <<>>
  /\ fnOut' = <<LinkOf(fnIn.filename)>>
  /\ UNCHANGED <<fnIn, sanIn, sanOut, tblVars, now, gitVars, apiVars>>

InitLink ==
  /\ sanIn = <<>> /\ sanOut = <<>>
  /\ fnIn \in [filename : LinkFilenames] /\ fnOut = <<>>
  /\ TblInit /\ GitIdle /\ ApiIdle
NextLink == LinkCreative
SpecLink == InitLink /\ [][NextLink]_vars

----------------------------------------------------------------------------
(* Properties *)

\* C4: sanitizePath is idempotent: sanitizing an already sanitized string
\* returns it unchanged, for every input string.
C4_SanitizeIdempotent ==
  Len(sanOut) = 2 => sanOut[2] = sanOut[1]

\* C4 witness: an input that sanitizing changes (case, a replaced character,
\* a collapsed run and a trimmed end) has been sanitized twice.
C4_Witness ==
  /\ Len(sanOut) = 2
  /\ sanIn = <<"-", "A", "!", "!">>
  /\ sanOut[1] = <<"a">>

\* no two clients of the list have the same id, and every id is the slug
ClientIdsUnique ==
  \A i, j \in 1..Len(clients) :
    /\ clients[i].id = clients[i].slug
    /\ clients[i].id = clients[j].id => i = j

\* a POST /api/clients whose name normalizes to the id of an existing client is
\* answered 400 and leaves the client list as it was
DuplicateClientRejected ==
  \A body \in Bodies(ClientNames) :
    (PostClients(body) /\ ~NoName(body) /\ HasClient(clients, Slugify(body.name)))
      => (tblResp'.status = 400 /\ clients' = clients)

\* C6: after any sequence of POST /api/clients requests no two clients have
\* the same id (id = slug), and a request whose name normalizes to the slug of
\* an existing client is rejected with 400 and leaves the list unchanged.
C6_ClientsUnique == []ClientIdsUnique /\ [][DuplicateClientRejected]_vars

\* C6 witness: "ACME CORP!!" was rejected after "Acme Corp" had been created.
C6_Witness ==
  /\ tblResp.op = "postClients"
  /\ tblResp.body = [name |-> AcmeCorpLoud]
  /\ tblResp.status = 400
  /\ \E i \in 1..Len(clients) : clients[i].name = AcmeCorp /\ clients[i].id = AcmeSlug

\* within every client's list the slugs are distinct and every campaign's id
\* is clientId-slug
CampaignSlugsUnique ==
  \A cid \in DOMAIN campaigns :
    \A i, j \in 1..Len(campaigns[cid]) :
      /\ campaigns[cid][i].id = cid \o <<"-">> \o campaigns[cid][i].slug
      /\ campaigns[cid][i].slug = campaigns[cid][j].slug => i = j

\* a POST campaigns whose name normalizes to a slug already in that client's list
\* is answered 400 and leaves that list as it was
DuplicateCampaignRejected ==
  \A cid \in ClientIdParams, body \in Bodies(CampaignNames) :
    (PostCampaigns(cid, body) /\ ~NoName(body)
       /\ HasSlug(CampaignsOf(cid), Slugify(body.name)))
      => (tblResp'.status = 400 /\ campaigns'[cid] = CampaignsOf(cid))

\* C7: after any sequence of POST campaigns requests no two campaigns of one
\* client have the same slug, every stored campaign has id clientId-slug, and a
\* request whose name normalizes to an existing slug of that client is rejected
\* with 400 and leaves that list unchanged.
C7_CampaignsUnique == []CampaignSlugsUnique /\ [][DuplicateCampaignRejected]_vars

\* C7 witness: a second name with the slug summer-25 was rejected for a client
\* that holds the campaign created under the first name.
C7_Witness ==
  /\ tblResp.op = "postCampaigns"
  /\ tblResp.status = 400
  /\ ~NoName(tblResp.body)
  /\ Len(CampaignsOf(tblResp.clientId)) = 1
  /\ campaigns[tblResp.clientId][1].slug = Slugify(tblResp.body.name)
  /\ campaigns[tblResp.clientId][1].name # tblResp.body.name

\* the configuration lacks the token, the owner or the repository name
MissingConfig == env.token = <<>> \/ env.owner = <<>> \/ env.repo = <<>>

\* c is the only caller that has called deploy so far
OnlyCaller(c) == \A c2 \in Callers \ {c} : dep[c2].pc = "idle"

\* a failed deployment's error is the wrapped message of the call it issued last
FailureIsWrapped ==
  \A c \in Callers :
    (dep[c].pc = "failed" /\ ~MissingConfig) =>
      /\ dep[c].calls # <<>>
      /\ dep[c].error = <<"Failed to deploy to GitHub: ">>
                          \o RemoteError(dep[c].calls[Len(dep[c].calls)])
      /\ dep[c].result = <<>>

\* a failed deployment takes no further step
FailedIsFinal ==
  \A c \in Callers : dep[c].pc = "failed" => dep'[c] = dep[c]

\* a deployment that failed left the branch's ref where it was when deploy was called
FailureLeavesRef ==
  \A c \in Callers :
    (dep[c].pc = "failed" /\ OnlyCaller(c)) => ghRef = dep[c].refAtCall

\* ... or, having found no branch, created it at the default branch's tip
FailureLeavesRefOrCreated ==
  \A c \in Callers :
    (dep[c].pc = "failed" /\ OnlyCaller(c)) =>
      \/ ghRef = dep[c].refAtCall
      \/ /\ dep[c].refAtCall = <<>>
         /\ ghRef = <<DefaultTip>>
         /\ \E i \in 1..(Len(dep[c].calls) - 1) : dep[c].calls[i] = "createRef"

\* the ref changes only in the step that completes an updateRef or a createRef
RefChangesOnlyByRefCalls ==
  ghRef' # ghRef =>
    \E c \in Callers :
      \/ dep[c].pc = "updateRef" /\ dep'[c].pc = "done" /\ ghRef' = dep[c].newCommit
      \/ dep[c].pc = "createRef" /\ dep'[c].pc = "getRef" /\ ghRef = <<>>
           /\ ghRef' = <<DefaultTip>>

\* C1 as claimed: a failed remote call ends the deployment with the wrapped
\* error, no later step is issued, and a deployment that failed before its ref
\* update leaves the gh-pages ref at the commit it pointed at before.
C1_Original == []FailureIsWrapped /\ [][FailedIsFinal]_vars /\ []FailureLeavesRef

\* C1 as amended: a failed remote call ends the deployment with the wrapped
\* error and no later step is issued; the gh-pages ref is left where it was,
\* except that a deployment which found no branch and created it leaves the new
\* branch at the default branch's tip; the ref moves only when an updateRef or
\* that createRef succeeds.
C1_FailureAborts ==
  /\ []FailureIsWrapped
  /\ [][FailedIsFinal]_vars
  /\ []FailureLeavesRefOrCreated
  /\ [][RefChangesOnlyByRefCalls]_vars

\* C1 witness: a deployment failed at tree creation, after both of its blobs
\* were created, and the branch it found still points at the earlier tip.
C1_Witness ==
  \E c \in Callers :
    /\ dep[c].pc = "failed"
    /\ OnlyCaller(c)
    /\ Len(dep[c].files) = 2
    /\ dep[c].calls # <<>>
    /\ dep[c].calls[Len(dep[c].calls)] = "createTree"
    /\ dep[c].error = <<"Failed to deploy to GitHub: ", "remote: ", "createTree">>
    /\ ghRef = <<PagesTip>>

\* the final paths of a deployment's files
FinalPaths(d) ==
  {BackslashToSlash(PathJoin(d.basePath, d.files[i].path)) : i \in 1..Len(d.files)}

\* the blob a file's content is stored as
BlobOf(file) == Blob(file.content, file.encoding)

\* the new tree holds one new entry per FileRecord and every base entry unchanged
TreeIsBasePlusN(d) ==
  LET T == d.newTree[1]
      B == d.baseTreeSha[1]
  IN /\ \A p \in DOMAIN B : p \in DOMAIN T /\ T[p] = B[p]
     /\ Cardinality(DOMAIN T \ DOMAIN B) = Len(d.files)
     /\ \A i \in 1..Len(d.files) :
          LET p == BackslashToSlash(PathJoin(d.basePath, d.files[i].path))
          IN p \in DOMAIN T /\ T[p] = BlobOf(d.files[i])

\* the N final paths are pairwise distinct and none is in the base tree
FreshDistinctPaths(d) ==
  /\ Cardinality(FinalPaths(d)) = Len(d.files)
  /\ FinalPaths(d) \cap DOMAIN d.baseTreeSha[1] = {}

\* C2 as claimed: the tree of a deployment of N FileRecords contains exactly N
\* new entries, one per record at target path joined with the record's path,
\* and every entry of the base tree unchanged.
C2_Original ==
  \A c \in Callers : dep[c].newTree # <<>> => TreeIsBasePlusN(dep[c])

\* C2 as amended: when the N final paths are pairwise distinct and none of them
\* is in the base tree, the tree contains exactly N new entries, one per
\* record, and every base entry unchanged; in every deployment the tree's paths
\* are the base tree's and the final paths, and every base entry at a path that
\* is no final path is unchanged.
C2_TreeOverlay ==
  \A c \in Callers :
    dep[c].newTree # <<>> =>
      LET T == dep[c].newTree[1]
          B == dep[c].baseTreeSha[1]
      IN /\ DOMAIN T = DOMAIN B \cup FinalPaths(dep[c])
         /\ \A p \in DOMAIN B \ FinalPaths(dep[c]) : T[p] = B[p]
         /\ FreshDistinctPaths(dep[c]) => TreeIsBasePlusN(dep[c])

\* C2 witness: a deployment of two records with fresh, distinct paths has built
\* its tree over a base tree of three entries.
C2_Witness ==
  \E c \in Callers :
    /\ dep[c].newTree # <<>>
    /\ Len(dep[c].files) = 2
    /\ FreshDistinctPaths(dep[c])
    /\ dep[c].baseTreeSha = <<PagesTree>>
    /\ Cardinality(DOMAIN dep[c].newTree[1]) = 5

\* C3: when the token, the owner or the repository name is missing, deploy
\* fails before any remote call: no call is issued and the ref is untouched.
C3_MissingConfigFailsFast ==
  MissingConfig =>
    /\ \A c \in Callers :
         /\ dep[c].pc \in {"idle", "failed"}
         /\ dep[c].calls = <<>>
         /\ dep[c].pc = "failed" => dep[c].error # <<>> /\ dep[c].result = <<>>
    /\ \A c \in Callers : dep[c].pc = "failed" => ghRef = dep[c].refAtCall

\* C3 witness: deploy was called without a token and has failed.
C3_Witness ==
  /\ env.token = <<>>
  /\ \E c \in Callers :
       /\ dep[c].pc = "failed"
       /\ dep[c].error = <<"GITHUB_TOKEN environment variable is not set">>

\* the URL of a sanitized target path p under configuration e
ExpectedUrl(e, p) ==
  IF e.customDomain = <<>>
    THEN <<"https://">> \o e.owner \o <<".github.io/">> \o e.repo \o <<"/">> \o p \o <<"/">>
    ELSE <<"https://">> \o e.customDomain \o <<"/">> \o p \o <<"/">>

\* a successful deployment's result carries the URL of its sanitized target
\* path and the commit it created
ResultIsUrlAndCommit ==
  \A c \in Callers :
    dep[c].pc = "done" =>
      LET target == IF dep[c].folderPath # <<>> THEN dep[c].folderPath
                    ELSE dep[c].creativeName
      IN /\ Len(dep[c].result) = 1
         /\ dep[c].result[1].previewUrl = ExpectedUrl(env, sanitizePath(target))
         /\ dep[c].result[1].commitSha = dep[c].newCommit[1]
         /\ target = <<"a","/","b">> =>
              dep[c].result[1].previewUrl \in
                { <<"https://","o","w",".github.io/","r","p","/","a","/","b","/">>,
                  <<"https://","d",".","i","o","/","a","/","b","/">> }

\* the step in which a deployment succeeds sets the ref to the commit it returns
RefIsReturnedCommit ==
  \A c \in Callers :
    (dep[c].pc # "done" /\ dep'[c].pc = "done") =>
      ghRef' = <<dep'[c].result[1].commitSha>>

\* C5: a successful deployment returns https://{owner}.github.io/{repo}/{p}/,
\* or https://{customDomain}/{p}/ when a custom domain is configured, p being
\* the sanitized target path, together with the identifier of the commit the
\* branch reference was updated to.
C5_UrlAndCommit == []ResultIsUrlAndCommit /\ [][RefIsReturnedCommit]_vars

\* C5 witness: a deployment whose target had to be sanitized has succeeded
\* under a custom domain.
C5_Witness ==
  \E c \in Callers :
    /\ dep[c].pc = "done"
    /\ env.customDomain = DomainName
    /\ dep[c].folderPath = <<>>
    /\ dep[c].result[1].previewUrl = <<"https://","d",".","i","o","/","b","-","1","/">>
    /\ ghRef = <<dep[c].result[1].commitSha>>

\* the previews list changes only by a new record put in front of the others
PreviewsGrowAtFront ==
  \/ previews' = previews
  \/ /\ Len(previews') = Len(previews) + 1
     /\ SubSeq(previews', 2, Len(previews')) = previews

\* GET /api/previews answers the list newest first
NewestFirst ==
  /\ GetPreviews.count = Len(previews)
  /\ \A i \in 1..(Len(GetPreviews.previews) - 1) :
       GetPreviews.previews[i].createdAt >= GetPreviews.previews[i + 1].createdAt

\* C8: across generate-preview and generate-batch requests in any interleaving
\* the previews list changes only by insertion of a new record at the front,
\* records present are never removed, modified or reordered, and GET
\* /api/previews returns the records in non-increasing createdAt.
C8_FrontInsertOnly == [][PreviewsGrowAtFront]_vars /\ []NewestFirst

\* C8 witness: a batch and a preview request each stored a record, the later
\* one at a later time, and the later one is first.
C8_Witness ==
  /\ Len(previews) = 2
  /\ previews[1].createdAt = 1 /\ previews[2].createdAt = 0
  /\ \E r, q \in Callers : req[r].kind = "batch" /\ req[q].kind = "preview"

\* a record is added only by the request whose deployment has returned, after
\* its updateRef, and it is the record of that deployment
AddedAfterDeploy ==
  previews' # previews =>
    \E r \in Callers :
      /\ req[r].pc = "deploying"
      /\ dep[r].pc = "done"
      /\ dep[r].calls[Len(dep[r].calls)] = "updateRef"
      /\ previews'[1].url = dep[r].result[1].previewUrl
      /\ previews'[1].folderPath = req[r].target
      /\ previews'[1].creativeName = dep[r].creativeName
      /\ previews'[1].status = "ready"

\* a request or batch item that ends without a deployment (validation,
\* extraction, template generation) or whose deployment failed adds no record
FailureAddsNone ==
  \A r \in Callers :
    req'[r] # req[r] =>
      /\ (req[r].pc \in {"idle", "item"} /\ req'[r].pc # "deploying")
           => previews' = previews
      /\ (req[r].pc = "deploying" /\ dep[r].pc = "failed") => previews' = previews

\* C9: a preview record is added only after the deployment of that creative
\* has completed successfully (its ref update done); a request or batch item
\* whose extraction, template generation or deployment fails adds no record.
C9_RecordOnlyAfterDeploy == [][AddedAfterDeploy]_vars /\ [][FailureAddsNone]_vars

\* C9 witness: one batch had an item fail at extraction and an item fail in
\* its deployment, a preview request failed at template generation or in its
\* deployment, and the list holds no record.
C9_Witness ==
  /\ previews = <<>>
  /\ \E r, q \in Callers :
       /\ req[r].kind = "batch" /\ req[r].pc = "responded"
       /\ req[r].response[1].status = 200
       /\ Len(req[r].errors) = 2
       /\ \E i \in 1..2 : req[r].errors[i].error[1] = "Failed to deploy to GitHub: "
       /\ req[q].kind = "preview" /\ req[q].pc = "responded"
       /\ req[q].response[1].status = 500

\* the fileIds of a list of results or errors
FileIdsOf(list) == {list[i].fileId : i \in 1..Len(list)}

\* the response of a batch accounts for every file exactly once
BatchAccounting(r) ==
  LET resp == req[r].response[1]
      files == req[r].body.files
  IN /\ resp.processed + resp.failed = Len(files)
     /\ \A i \in 1..Len(files) :
          (files[i].fileId \in FileIdsOf(resp.results))
            # (\E k \in 1..Len(resp.errors) : files[i].fileId \in FileIdsOf(resp.errors[k]))

\* C10 as claimed: a generate-batch request that passes validation with n files
\* has each file in exactly one of the results list or the errors list, and its
\* response reports processed + failed = n.
C10_Original ==
  \A r \in Callers :
    (req[r].kind = "batch" /\ req[r].pc = "responded" /\ req[r].response[1].status = 200)
      => BatchAccounting(r)

\* no deployment of request r is in flight
NoneInFlight(r) == dep[r].pc \in {"idle", "done", "failed"}

\* file j of batch r has finished: it has its result or its error
FinishedIn(rq, j) ==
  LET fid == rq.body.files[j].fileId
  IN fid \in FileIdsOf(rq.results) \/ fid \in FileIdsOf(rq.errors)
FileFinished(r, j) == FinishedIn(req[r], j)

\* the pipeline of a file of a batch starts with the loop at that file, no
\* deployment of the request in flight and every earlier file finished
ItemStartsAfterPrevious ==
  \A r \in Callers :
    (req[r].kind = "batch" /\ req'[r].pc = "deploying" /\ req[r].pc # "deploying") =>
      /\ req[r].pc = "item"
      /\ NoneInFlight(r)
      /\ req'[r].idx = req[r].idx
      /\ Len(req[r].results) + Len(req[r].errors) >= req[r].idx - 1
      /\ \A j \in 1..(req[r].idx - 1) : FileFinished(r, j)

\* the loop takes the files one by one, in the order of the list
LoopInListOrder ==
  \A r \in Callers :
    (req[r].kind = "batch" /\ req'[r].idx # req[r].idx) =>
      /\ req'[r].idx = req[r].idx + 1
      /\ FinishedIn(req'[r], req[r].idx)

\* the index deployment starts after the last file has finished, with no
\* deployment of the request in flight
IndexStartsAfterLoop ==
  \A r \in Callers :
    (req[r].kind = "batch" /\ req'[r].pc = "indexing" /\ req[r].pc # "indexing") =>
      /\ req[r].pc = "item"
      /\ NoneInFlight(r)
      /\ req[r].idx = Len(req[r].body.files) + 1
      /\ \A j \in 1..Len(req[r].body.files) : FileFinished(r, j)
      /\ dep'[r].creativeName = <<"Campaign Index">>
      /\ dep'[r].pc # "idle"

\* once the index deployment was started the request starts no other
\* deployment: the calls of its deployment only grow, until the response
IndexStartedOnce ==
  \A r \in Callers :
    (req[r].kind = "batch" /\ req[r].pc \in {"indexing", "responded"}) =>
      /\ req'[r].pc \in {"indexing", "responded"}
      /\ dep'[r].creativeName = dep[r].creativeName
      /\ Len(dep'[r].calls) >= Len(dep[r].calls)
      /\ SubSeq(dep'[r].calls, 1, Len(dep[r].calls)) = dep[r].calls

\* the response of a validated batch is sent after its index deployment ended
RespondsAfterIndex ==
  \A r \in Callers :
    (/\ req[r].kind = "batch" /\ req[r].pc # "responded" /\ req'[r].pc = "responded"
     /\ req'[r].response[1].status = 200) =>
      /\ req[r].pc = "indexing"
      /\ dep[r].creativeName = <<"Campaign Index">>
      /\ dep[r].pc \in {"done", "failed"}

\* C11: within one generate-batch request the pipeline of file i+1 starts only
\* after that of file i has finished (no deployment of the request is in flight
\* when one is started), and the campaign index deployment is started exactly
\* once, after the last file's pipeline has finished and before the response.
C11_SequentialBatch ==
  /\ [][ItemStartsAfterPrevious]_vars
  /\ [][LoopInListOrder]_vars
  /\ [][IndexStartsAfterLoop]_vars
  /\ [][IndexStartedOnce]_vars
  /\ [][RespondsAfterIndex]_vars

\* C11 witness: a batch of two files has responded after its second file was
\* deployed and its index deployment succeeded.
C11_Witness ==
  \E r \in Callers :
    /\ req[r].kind = "batch" /\ req[r].pc = "responded"
    /\ req[r].response[1].status = 200
    /\ Len(req[r].body.files) = 2
    /\ Len(req[r].results) = 1 /\ req[r].results[1].fileId = req[r].body.files[2].fileId
    /\ dep[r].pc = "done" /\ dep[r].creativeName = <<"Campaign Index">>

\* the success response of a batch, from its lists alone
SuccessResponse(rq) ==
  [ status |-> 200, success |-> TRUE, campaignUrl |-> rq.campaignUrl,
    processed |-> Len(rq.results), failed |-> Len(rq.errors), results |-> rq.results,
    errors |-> IF rq.errors = <<>> THEN <<>> ELSE <<rq.errors>> ]

\* while the index is deployed the lists of the batch do not change
IndexKeepsLists ==
  \A r \in Callers :
    (req[r].kind = "batch" /\ req[r].pc = "indexing") =>
      /\ req'[r].results = req[r].results
      /\ req'[r].errors = req[r].errors
      /\ req'[r].campaignUrl = req[r].campaignUrl

\* whatever the outcome of the index deployment, the response is the success
\* response of the lists
IndexOutcomeIgnored ==
  \A r \in Callers :
    (req[r].kind = "batch" /\ req[r].pc = "indexing" /\ req'[r].pc = "responded") =>
      req'[r].response = <<SuccessResponse(req[r])>>

\* C12: when the campaign index deployment fails, the batch response is still
\* a success response and carries the results and errors lists it would have
\* carried had the index deployment succeeded.
C12_IndexFailureTolerated == [][IndexKeepsLists]_vars /\ [][IndexOutcomeIgnored]_vars

\* C12 witness: a batch whose index deployment failed has answered 200 with a
\* result and an error.
C12_Witness ==
  \E r \in Callers :
    /\ req[r].kind = "batch" /\ req[r].pc = "responded"
    /\ dep[r].pc = "failed" /\ dep[r].creativeName = <<"Campaign Index">>
    /\ req[r].response[1].status = 200
    /\ req[r].response[1].processed = 1 /\ req[r].response[1].failed = 1

\* a non-hidden file: not a directory, its base name does not start with '.'
NonHiddenFile(e) ==
  /\ ~e.isDirectory
  /\ (Basename(e.entryName) = <<>> \/ Basename(e.entryName)[1] # ".")

\* the entry remains: a non-hidden file whose name does not contain __MACOSX
Remains(e) == NonHiddenFile(e) /\ ~Includes(e.entryName, MacMarker)

\* the positions of the remaining entries, and the k-th of them
RemainingAt(entries) == {i \in 1..Len(entries) : Remains(entries[i])}
NthRemaining(entries, k) ==
  CHOOSE i \in RemainingAt(entries) :
    Cardinality({j \in RemainingAt(entries) : j <= i}) = k

\* the call returned one FileRecord per remaining entry, in the archive's order
ReturnsTheRemaining(out, entries) ==
  /\ ~out.threw
  /\ out.files # <<>>
  /\ Len(out.files) = Cardinality(RemainingAt(entries))
  /\ \A k \in 1..Len(out.files) :
       LET e == entries[NthRemaining(entries, k)]
       IN /\ out.files[k].path = normalizeFilePath(e.entryName)
          /\ out.files[k].content = e.data

\* C13 as claimed: for every archive that contains at least one non-hidden
\* file, extractZip returns a non-empty sequence that is the archive's entries
\* in archive order without the directories, the hidden entries and the macOS
\* resource-fork entries.
C13_Original ==
  (fnOut # <<>> /\ \E i \in 1..Len(fnIn) : NonHiddenFile(fnIn[i]))
    => ReturnsTheRemaining(fnOut[1], fnIn)

\* C13 as amended: for every archive with at least one entry that is neither a
\* directory nor hidden nor has __MACOSX in its name, extractZip returns the
\* non-empty sequence of one FileRecord per such entry, in archive order; for
\* every other archive it throws the empty-archive error.
C13_ExtractFilters ==
  fnOut # <<>> =>
    IF RemainingAt(fnIn) # {}
      THEN ReturnsTheRemaining(fnOut[1], fnIn)
      ELSE fnOut[1].threw /\ fnOut[1].files = <<>>

\* C13 witness: of a directory, an image in it and a page, the two files were
\* returned in the archive's order.
C13_Witness ==
  /\ fnIn = <<DirEntry, PngEntry, HtmlEntry>>
  /\ fnOut # <<>>
  /\ Len(fnOut[1].files) = 2
  /\ fnOut[1].files[1].path = <<"g","/","p",".","p","n","g">>
  /\ fnOut[1].files[1].encoding = "base64"
  /\ fnOut[1].files[2].path = <<"i",".","h","t","m","l">>

EmptyArchiveMessage == <<"ZIP file is empty or contains no valid files">>

\* the uploaded ZIP fid has no entry that survives the filters
NothingRemains(fid) == fid \in FileIds /\ RemainingAt(ArchiveOf[fid]) = {}

\* extraction of such a ZIP throws the empty-archive error
EmptyExtractionThrows ==
  \A fid \in FileIds :
    NothingRemains(fid) =>
      /\ extractZip(ArchiveOf[fid]).threw
      /\ extractZip(ArchiveOf[fid]).error = EmptyArchiveMessage

\* a generate-preview request for such a ZIP is answered with that error,
\* calls no deployment and adds no record
EmptyPreviewStops ==
  \A r \in Callers :
    (/\ req[r].pc = "idle" /\ req'[r].kind = "preview"
     /\ req'[r].body.creativeName # <<>>
     /\ req'[r].body.fileId \in uploads
     /\ NothingRemains(req'[r].body.fileId)) =>
      /\ req'[r].pc = "responded"
      /\ req'[r].response = <<[status |-> 500, error |-> EmptyArchiveMessage]>>
      /\ dep'[r] = IdleDeploy
      /\ previews' = previews /\ ghRef' = ghRef /\ uploads' = uploads

\* a batch item for such a ZIP gets that error, calls no deployment and adds
\* no record; the loop goes on
EmptyItemStops ==
  \A r \in Callers :
    (/\ req[r].kind = "batch" /\ req[r].pc = "item" /\ req'[r] # req[r]
     /\ ~LoopDone(req[r])
     /\ req[r].body.files[req[r].idx].fileId \in uploads
     /\ NothingRemains(req[r].body.files[req[r].idx].fileId)) =>
      /\ req'[r].pc = "item" /\ req'[r].idx = req[r].idx + 1
      /\ req'[r].errors =
           Append(req[r].errors, [ fileId |-> req[r].body.files[req[r].idx].fileId,
                                   filename |-> req[r].body.files[req[r].idx].filename,
                                   error |-> EmptyArchiveMessage ])
      /\ req'[r].results = req[r].results
      /\ dep'[r] = dep[r]
      /\ previews' = previews /\ ghRef' = ghRef /\ uploads' = uploads

\* C14: when no entry of the archive survives filtering, extraction fails with
\* the empty-archive error, and the request or batch item that triggered it
\* issues no remote deployment call and adds no preview record.
C14_EmptyArchiveStops ==
  /\ []EmptyExtractionThrows
  /\ [][EmptyPreviewStops]_vars
  /\ [][EmptyItemStops]_vars

\* C14 witness: a preview request and the first item of a batch met the ZIP
\* with only a hidden entry; neither called a deployment and no record exists.
C14_Witness ==
  /\ NothingRemains("f0")
  /\ previews = <<>>
  /\ \E r, q \in Callers :
       /\ req[r].kind = "preview" /\ req[r].body.fileId = "f0"
       /\ req[r].pc = "responded" /\ req[r].response[1].error = EmptyArchiveMessage
       /\ dep[r].calls = <<>>
       /\ req[q].kind = "batch" /\ req[q].idx = 2 /\ req[q].pc = "item"
       /\ Len(req[q].errors) = 1 /\ req[q].errors[1].fileId = "f0"
       /\ req[q].errors[1].error = EmptyArchiveMessage
       /\ dep[q].calls = <<>>

\* C15 as claimed: a generate-preview request whose uploaded ZIP has no
\* surviving entry is answered with a 4xx status and a message.
C15_Original ==
  \A r \in Callers :
    (/\ req[r].kind = "preview" /\ req[r].pc = "responded"
     /\ req[r].body.creativeName # <<>>
     /\ req[r].body.fileId \in uploads
     /\ NothingRemains(req[r].body.fileId)) =>
      /\ req[r].response[1].status \in 400..499
      /\ req[r].response[1].error # <<>>

\* the text occurs somewhere in s
Contains(s, text) ==
  \E i \in 1..(Len(s) - Len(text) + 1) : SubSeq(s, i, i + Len(text) - 1) = text

\* C16: for every creative name that contains _300x250_EN-US, with any prefix
\* and any suffix, parseCreativeName returns width 300, height 250 and locale
\* "EN-US".
C16_Original ==
  (fnOut # <<>> /\ Contains(fnIn, SizeLocaleMarker)) =>
    /\ fnOut[1].width = <<300>>
    /\ fnOut[1].height = <<250>>
    /\ fnOut[1].locale = <<"E","N","-","U","S">>

\* the same for the names in which the marker comes first and a separator follows it
C16_SeparatorFollows ==
  (/\ fnOut # <<>>
   /\ \E rest \in ParseNames :
        fnIn = SizeLocaleMarker \o rest /\ IsSep(At(rest, 1))) =>
    /\ fnOut[1].width = <<300>>
    /\ fnOut[1].height = <<250>>
    /\ fnOut[1].locale = <<"E","N","-","U","S">>

\* C16 (failing input): the name is the marker alone and the locale is "EN"
C16_MarkerAlone ==
  /\ fnIn = SizeLocaleMarker /\ fnOut # <<>>
  /\ fnOut[1].locale = <<"E","N">>

\* the name without the characters of the size match and of the locale group,
\* each taken where it matched
WithoutMatches(name) ==
  LET sm == sizeMatch(name)
      lm == localeMatch(name)
      inSize(i) == sm # <<>> /\ i \in sm[1].index..(sm[1].index + Len(sm[1].text) - 1)
      inLocale(i) == lm # <<>> /\ i \in (lm[1].index + 1)..(lm[1].index + Len(lm[1].group))
  IN Kept(name, [i \in 1..Len(name) |-> ~inSize(i) /\ ~inLocale(i)])

\* C17: for every creative name, the base name returned by parseCreativeName
\* is the input with exactly the matched size substring and the matched locale
\* substring removed, every run of separators collapsed to one underscore and
\* leading and trailing separators trimmed; it is "Creative" when that result
\* is empty, and it is never empty.
C17_Original ==
  fnOut # <<>> =>
    LET expected == TrimSeps(CollapseSeps(WithoutMatches(fnIn)))
    IN /\ fnOut[1].baseName = (IF expected = <<>> THEN <<"Creative">> ELSE expected)
       /\ fnOut[1].baseName # <<>>

\* C17 (failing input): Green_EN keeps its locale and loses the end of Green
C17_GreenCut ==
  /\ fnIn = <<"G","r","e","e","n","_","E","N">> /\ fnOut # <<>>
  /\ fnOut[1].locale = <<"E","N">>
  /\ fnOut[1].baseName = <<"G","r","e","_","E","N">>

\* the base name is never empty
C17_NeverEmpty == fnOut # <<>> => fnOut[1].baseName # <<>>

\* the positions of the input whose creative has the size label
WithKey(creatives, key) == {i \in 1..Len(creatives) : SizeKey(creatives[i].creativeName) = key}

\* every input creative is in exactly one group, the one of its size label
GroupedByLabel(creatives, groups) ==
  /\ \A j, k \in 1..Len(groups) : groups[j].size = groups[k].size => j = k
  /\ \A i \in 1..Len(creatives) :
       \E j \in 1..Len(groups) : groups[j].size = SizeKey(creatives[i].creativeName)
  /\ \A j \in 1..Len(groups) :
       /\ Cardinality(WithKey(creatives, groups[j].size)) = Len(groups[j].creatives)
       /\ Len(groups[j].creatives) > 0
       /\ \A k \in 1..Len(groups[j].creatives) :
            SizeKey(groups[j].creatives[k].creativeName) = groups[j].size

\* the sized groups come in non-increasing area and "Other" after all of them
LargerFirstOtherLast(groups) ==
  \A j, k \in 1..Len(groups) :
    j < k =>
      /\ groups[j].size # Other
      /\ groups[k].size # Other =>
           groups[j].width[1] * groups[j].height[1] >= groups[k].width[1] * groups[k].height[1]

\* C18: groupCreativesBySize puts every input creative into exactly one group,
\* keyed by its parsed size label ("Other" when no size is parsed), and returns
\* the groups ordered by non-increasing area (width * height) with the "Other"
\* group after every sized group.
C18_Original ==
  fnOut # <<>> => GroupedByLabel(fnIn, fnOut[1]) /\ LargerFirstOtherLast(fnOut[1])

\* the grouping part alone
C18_Grouping == fnOut # <<>> => GroupedByLabel(fnIn, fnOut[1])

\* the order when no name has a width of zero
C18_OrderNonZero ==
  (fnOut # <<>> /\ \A j \in 1..Len(fnOut[1]) :
                     fnOut[1][j].size = Other \/ ~Falsy(fnOut[1][j].width)) =>
    LargerFirstOtherLast(fnOut[1])

\* C18 (failing input): Green, then 00x50: "Other" comes before the group 0×50
C18_OtherBeforeSized ==
  /\ fnIn = << [creativeName |-> <<"G","r","e","e","n">>],
               [creativeName |-> <<"0","0","x","5","0">>] >>
  /\ fnOut # <<>>
  /\ Len(fnOut[1]) = 2
  /\ fnOut[1][1].size = Other
  /\ fnOut[1][2].size = <<"0","×","5","0">>

\* the remote calls of a whole deployment of d, with or without the creation
\* of the branch
CallSequence(d, created) ==
  <<"ensureGetRef">>
    \o (IF created THEN <<"reposGet", "defaultGetRef", "createRef">> ELSE <<>>)
    \o <<"getRef", "getCommit">>
    \o [i \in 1..Len(d.files) |-> "createBlob"]
    \o <<"createTree", "createCommit", "updateRef">>

IsPrefix(s, t) == Len(s) <= Len(t) /\ SubSeq(t, 1, Len(s)) = s

\* the calls issued so far are the beginning of the one sequence: the order is
\* fixed and no step is issued twice
CallsInFixedOrder ==
  \A c \in Callers :
    \E created \in BOOLEAN : IsPrefix(dep[c].calls, CallSequence(dep[c], created))

\* createTree is issued by the step in which the last pending createBlob is
\* answered, and by no other
TreeAfterEveryBlob ==
  \A c \in Callers :
    (Len(dep'[c].calls) > Len(dep[c].calls)
       /\ dep'[c].calls[Len(dep'[c].calls)] = "createTree") =>
      /\ dep[c].pc = "createBlob"
      /\ dep[c].pending # {}
      /\ dep'[c].pending = {}
      /\ Len(dep'[c].treeItems) = Len(dep[c].files)

\* a blob leaves the pending set only while the deployment is still running
BlobsAnsweredWhileRunning ==
  \A c \in Callers :
    dep'[c].pending # dep[c].pending =>
      \/ dep[c].pc = "getCommit" /\ dep'[c].pending = 1..Len(dep[c].files)
      \/ dep[c].pc = "createBlob" /\ dep'[c].pc \in {"createBlob", "createTree"}
           /\ dep'[c].pending \subseteq dep[c].pending

\* a deployment that returned made updateRef its last call, and a deployment
\* that ended issues nothing more
RefUpdateIsLast ==
  \A c \in Callers :
    /\ dep[c].pc = "done" =>
         /\ dep[c].calls # <<>>
         /\ dep[c].calls[Len(dep[c].calls)] = "updateRef"
         /\ \E created \in BOOLEAN : dep[c].calls = CallSequence(dep[c], created)
    /\ dep[c].pc \in {"done", "failed"} => dep'[c].calls = dep[c].calls

\* C19: in every deployment the remote calls happen in a fixed order:
\* branch-exists check, read of the branch tip and its tree, blob creations,
\* tree creation only after every blob creation has completed successfully,
\* commit creation, then the reference update, which is the last remote call;
\* each step is issued at most once per deployment (no retry).
C19_FixedCallOrder ==
  /\ []CallsInFixedOrder
  /\ [][TreeAfterEveryBlob]_vars
  /\ [][BlobsAnsweredWhileRunning]_vars
  /\ [][RefUpdateIsLast]_vars

\* C19 (witness): a deployment of two files that had to create the branch has
\* returned, another one failed at a createBlob
C19_Witness ==
  \E c, o \in Callers :
    /\ dep[c].pc = "done"
    /\ Len(dep[c].files) = 2
    /\ dep[c].calls = CallSequence(dep[c], TRUE)
    /\ dep[o].pc = "failed"
    /\ dep[o].calls # <<>>
    /\ dep[o].calls[Len(dep[o].calls)] = "createBlob"

\* both deployments read the same branch tip
SameTip(c, o) ==
  /\ c # o
  /\ dep[c].currentCommitSha # <<>>
  /\ dep[c].currentCommitSha = dep[o].currentCommitSha

\* the paths deployment o writes that deployment c's tree does not have
DroppedPaths(c, o) ==
  {dep[o].treeItems[i].path : i \in 1..Len(dep[o].treeItems)} \ DOMAIN dep[c].newCommit[1].tree

SameTipSameCommit ==
  \A c, o \in Callers :
    (SameTip(c, o) /\ dep[c].pc = "done" /\ dep[o].pc = "done") =>
      dep[c].newCommit = dep[o].newCommit

\* the branch moves only forward: the commit it pointed at stays in its history
BranchKeepsHistory ==
  (ghRef' # ghRef /\ ghRef # <<>>) => IsAncestor(ghRef[1], ghRef'[1])

\* a deployment whose update is no fast-forward any more can only fail, with
\* the wrapped error, and leaves the branch alone
StaleUpdateFails ==
  \A c \in Callers :
    (/\ dep[c].pc = "updateRef"
     /\ ~IsAncestor(ghRef[1], dep[c].newCommit[1])
     /\ dep'[c] # dep[c]) =>
      /\ dep'[c].pc = "failed"
      /\ dep'[c].result = <<>>
      /\ dep'[c].error = Wrapped(RemoteError("updateRef"))
      /\ ghRef' = ghRef

\* the update is issued as soon as the commit exists, whatever the branch
\* points at by then: the client compares nothing
UpdateIssuedUnchecked ==
  \A c \in Callers :
    (dep[c].pc = "createCommit" /\ dep'[c].pc # "failed" /\ dep'[c] # dep[c]) =>
      /\ dep'[c].pc = "updateRef"
      /\ dep'[c].newCommit[1].parents = <<dep[c].currentCommitSha[1]>>

CommitOnTipRead ==
  \A c \in Callers :
    dep[c].newCommit # <<>> =>
      /\ dep[c].newCommit[1].parents = dep[c].currentCommitSha
      /\ Len(dep[c].newCommit[1].parents) = 1
      /\ dep[c].baseTreeSha = <<dep[c].currentCommitSha[1].tree>>
      /\ dep[c].newCommit[1].tree =
           CreateTree(dep[c].currentCommitSha[1].tree, dep[c].treeItems)

\* a reference update moves the branch to a child of the tip that was current
\* immediately before it
ChildOfPreviousTip ==
  (ghRef' # ghRef /\ ghRef # <<>>) => ghRef'[1].parents = ghRef

\* the history of a commit is one chain
RECURSIVE IsChain(_)
IsChain(commit) ==
  \/ commit.parents = <<>>
  \/ Len(commit.parents) = 1 /\ IsChain(commit.parents[1])

\* the branch's history is a linear chain
LinearHistory == ghRef # <<>> => IsChain(ghRef[1])

CreationCalls == {"reposGet", "defaultGetRef", "createRef"}

\* the lookup's answer decides: with the branch there, the step after the
\* lookup issues no creation call and leaves the branch alone; a creation call
\* follows the lookup only when the branch was not found
LookupDecides ==
  \A c \in Callers :
    (dep[c].pc = "ensureGetRef" /\ dep'[c] # dep[c]) =>
      \/ /\ ghRef # <<>>
         /\ dep'[c].pc = "getRef"
         /\ dep'[c].calls = <<"ensureGetRef", "getRef">>
         /\ ghRef' = ghRef
      \/ /\ ghRef = <<>>
         /\ dep'[c].pc = "reposGet"
         /\ ghRef' = ghRef
      \/ /\ dep'[c].pc = "failed"
         /\ dep'[c].calls = <<"ensureGetRef">>
         /\ dep'[c].error = Wrapped(RemoteError("ensureGetRef"))
         /\ ghRef' = ghRef

\* a deployment that issued a creation call had its lookup answered not-found:
\* it issued the three calls in their order, right after the lookup
CreationOnlyAfterNotFound ==
  \A c \in Callers :
    (\E i \in 1..Len(dep[c].calls) : dep[c].calls[i] \in CreationCalls) =>
      \E n \in 2..4 : SubSeq(dep[c].calls, 1, n)
                        = SubSeq(<<"ensureGetRef", "reposGet", "defaultGetRef", "createRef">>, 1, n)

\* the branch comes into being by a createRef that succeeds, at the tip of the
\* default branch
CreatedAtDefaultTip ==
  (ghRef = <<>> /\ ghRef' # <<>>) =>
    /\ ghRef' = <<DefaultTip>>
    /\ \E c \in Callers : dep[c].pc = "createRef" /\ dep'[c].pc = "getRef"

\* C22: ensureBranchExists creates the gh-pages branch only when the lookup of
\* its tip reports not-found, and then points it at the tip commit of the
\* default branch; on any other lookup failure it issues no branch-creation
\* call and the failure propagates; when the lookup succeeds it changes nothing.
C22_BranchCreatedOnNotFound ==
  /\ [][LookupDecides]_vars
  /\ []CreationOnlyAfterNotFound
  /\ [][CreatedAtDefaultTip]_vars

\* C22 (witness): one deployment created the branch at the default tip and went
\* on, another one's lookup failed and it issued nothing else
C22_Witness ==
  \E c, o \in Callers :
    /\ dep[c].calls = <<"ensureGetRef", "reposGet", "defaultGetRef", "createRef", "getRef">>
    /\ ghRef = <<DefaultTip>>
    /\ dep[o].pc = "failed"
    /\ dep[o].calls = <<"ensureGetRef">>

\* the final path of the i-th file of a deployment
FinalPath(d, i) == BackslashToSlash(PathJoin(d.basePath, d.files[i].path))

\* the entries handed to createTree are those of the file list, in its order
EntriesInListOrder ==
  \A c \in Callers :
    dep[c].treeItems # <<>> =>
      /\ Len(dep[c].treeItems) = Len(dep[c].files)
      /\ \A i \in 1..Len(dep[c].files) :
           /\ dep[c].treeItems[i].path = FinalPath(dep[c], i)
           /\ dep[c].treeItems[i].sha = BlobOf(dep[c].files[i])

\* the entries are set in the step that answers the last createBlob, whichever
\* blob that is
EntriesSetByLastBlob ==
  \A c \in Callers :
    dep'[c].treeItems # dep[c].treeItems =>
      /\ dep[c].pc = "createBlob"
      /\ Cardinality(dep[c].pending) = 1
      /\ dep'[c].pc = "createTree"

\* the tree of a deployment holds, at each final path, the content of the record
\* listed last with that path
LaterRecordWins ==
  \A c \in Callers :
    dep[c].newTree # <<>> =>
      \A i \in 1..Len(dep[c].files) :
        (\A j \in 1..Len(dep[c].files) : FinalPath(dep[c], j) = FinalPath(dep[c], i) => j <= i) =>
          dep[c].newTree[1][FinalPath(dep[c], i)] = BlobOf(dep[c].files[i])

\* C23: the list of path-to-blob entries handed to tree creation has the order
\* of the deployment's file list, whatever order the concurrent blob creations
\* complete in; when two FileRecords of one deployment resolve to the same
\* final path the deployment does not fail and the tree holds the content of
\* the later-listed record.
C23_EntriesInListOrder ==
  /\ []EntriesInListOrder
  /\ [][EntriesSetByLastBlob]_vars
  /\ []LaterRecordWins

\* C23 (witness): a deployment of two records with the same final path has
\* returned and its tree holds the second one's content, while in another
\* deployment of two files the second blob was answered before the first
C23_Witness ==
  \E c, o \in Callers :
    /\ dep[c].pc = "done"
    /\ dep[c].files = <<FileI1, FileI2>>
    /\ dep[c].result[1].commitSha.tree[FinalPath(dep[c], 1)] = BlobOf(FileI2)
    /\ dep[o].pc = "createBlob"
    /\ Len(dep[o].files) = 2
    /\ dep[o].pending = {1}

\* request r is received in this step as a generate-preview request
PreviewReceived(r) == req[r].pc = "idle" /\ req'[r].kind = "preview"

\* the step answers the request at once and touches nothing: no deployment is
\* started, no remote call is issued, the tables and the uploads stay
AnsweredUntouched(r, status) ==
  /\ req'[r].pc = "responded"
  /\ req'[r].response[1].status = status
  /\ req'[r].response[1].error # <<>>
  /\ dep' = dep
  /\ ghRef' = ghRef
  /\ UNCHANGED <<clients, campaigns, previews, uploads>>

\* a request without fileId or creativeName is answered 400, one whose file is
\* not in the upload directory 404
InvalidPreviewRejected ==
  \A r \in Callers :
    PreviewReceived(r) =>
      LET body == req'[r].body
      IN /\ (body.fileId = "" \/ body.creativeName = <<>>) => AnsweredUntouched(r, 400)
         /\ (body.fileId # "" /\ body.creativeName # <<>> /\ body.fileId \notin uploads) =>
              AnsweredUntouched(r, 404)

\* a request answered 400 or 404 never had a deployment
RejectedNeverDeployed ==
  \A r \in Callers :
    (req[r].kind = "preview" /\ req[r].pc = "responded"
       /\ req[r].response[1].status \in {400, 404}) =>
      dep[r] = IdleDeploy

\* C24: a generate-preview request without fileId or without creativeName is
\* answered 400, and one whose uploaded file does not exist is answered 404;
\* in both cases no extraction and no remote call is performed and the clients,
\* campaigns and previews tables and the uploaded files are left unchanged.
C24_InvalidPreviewRejected ==
  /\ [][InvalidPreviewRejected]_vars
  /\ []RejectedNeverDeployed

\* C24 (witness): a request for a file that an earlier request deployed and
\* removed was answered 404, with the earlier record still the only one
C24_Witness ==
  \E r, q \in Callers :
    /\ req[r].kind = "preview" /\ req[r].pc = "responded"
    /\ req[r].response[1].status = 404
    /\ req[r].body.fileId \notin uploads
    /\ req[q].pc = "responded" /\ req[q].response[1].status = 200
    /\ Len(previews) = 1

\* a request without creativeName was answered 400
C24_MissingNameAnswered ==
  \E r \in Callers :
    /\ req[r].kind = "preview" /\ req[r].pc = "responded"
    /\ req[r].body.creativeName = <<>>
    /\ req[r].response[1].status = 400

\* the path lies under the folder: it starts with the folder and a '/'
Under(path, folder) ==
  /\ Len(path) > Len(folder) + 1
  /\ SubSeq(path, 1, Len(folder) + 1) = folder \o <<"/">>

\* C25: every path a deployment writes into the tree lies under that
\* deployment's sanitized target folder, for every FileRecord path the
\* extractor can produce, including entry names that contain '..' segments; a
\* deployment never creates or overwrites an entry outside its target folder.
C25_Original ==
  fnOut # <<>> =>
    \A i \in 1..Len(fnOut[1]) : Under(fnOut[1][i], sanitizePath(fnIn.target))

\* the same for the entry names without a '..' segment
C25_WithoutDotDot ==
  (fnOut # <<>> /\ ~Includes(fnIn.entryName, <<".",".">>)) =>
    \A i \in 1..Len(fnOut[1]) : Under(fnOut[1][i], sanitizePath(fnIn.target))

\* C25 (failing input): the entry ../x deployed to a/b is written to a/x
C25_Escaped ==
  /\ fnIn = [target |-> <<"a","/","b">>, entryName |-> <<".",".","/","x">>]
  /\ fnOut = << <<<<"a","/","x">>>> >>

\* request r, a generate-preview request, is answered in this step
PreviewAnswered(r) ==
  req'[r].kind = "preview" /\ req[r].pc # "responded" /\ req'[r].pc = "responded"

\* the request answered in this step added one record if it answers success
\* and none if it answers an error, and a record is added for a file only
\* while its ZIP is there, which the step removes
AnswerMatchesRecord ==
  \A r \in Callers :
    PreviewAnswered(r) =>
      IF req'[r].response[1].status = 200
        THEN /\ Len(previews') = Len(previews) + 1
             /\ req'[r].body.fileId \in uploads
             /\ req'[r].body.fileId \notin uploads'
        ELSE previews' = previews

\* C26: under any interleaving of generate-preview requests, including two
\* requests that name the same fileId, a request responds with success if and
\* only if it added exactly one record to the previews list; a request that
\* responds with an error has added none, and one uploaded file yields at most
\* one preview record.
C26_Original == [][AnswerMatchesRecord]_vars

\* C26 (failing input): two requests for f1 were received; both deployed and
\* both stored a record, the second was answered 500
C26_RecordWithError ==
  \E r, q \in Callers :
    /\ r # q
    /\ req[r].kind = "preview" /\ req[q].kind = "preview"
    /\ req[r].body.fileId = "f1" /\ req[q].body.fileId = "f1"
    /\ req[r].pc = "responded" /\ req[r].response[1].status = 200
    /\ req[q].pc = "responded" /\ req[q].response[1].status = 500
    /\ dep[q].pc = "done"
    /\ Len(previews) = 2

\* the path of the index page generateCampaignIndex deploys for a request
CampaignIndexPath(rq) ==
  TreeItem(sanitizePath(rq.client.slug \o <<"/">> \o rq.campaign.slug),
           [ path |-> <<"i","n","d","e","x",".","h","t","m","l">>, content |-> "",
             encoding |-> "utf-8", type |-> "html" ]).path

\* the creative names the index page of the request's campaign lists on the
\* branch
ListedNames(rq) ==
  IF ghRef = <<>> \/ CampaignIndexPath(rq) \notin DOMAIN ghRef[1].tree THEN {}
  ELSE LET page == ghRef[1].tree[CampaignIndexPath(rq)].content
       IN {page.creatives[i].creativeName : i \in 1..Len(page.creatives)}

\* the creative names of the results of a request
ResultNames(rq) == {rq.results[i].creativeName : i \in 1..Len(rq.results)}

\* request r was answered after its index page was deployed, and no request
\* came after it
LastIndexed(r) ==
  /\ req[r].kind = "batch" /\ req[r].pc = "responded"
  /\ req[r].response[1].status = 200
  /\ dep[r].pc = "done"
  /\ \A q \in Callers : q > r => req[q].pc = "idle"

\* C27: after any sequence of generate-batch requests for the same campaign,
\* the campaign index page deployed at the campaign folder lists every
\* creative that those requests deployed successfully to that campaign, not
\* only the creatives of the most recent request.
C27_Original ==
  \A r \in Callers :
    LastIndexed(r) =>
      \A q \in Callers :
        (q <= r /\ req[q].kind = "batch" /\ req[q].campaign = req[r].campaign)
          => ResultNames(req[q]) \subseteq ListedNames(req[r])

\* C27 (what the page does list): the creatives of the request that deployed it
C27_ListsOwnResults ==
  \A r \in Callers : LastIndexed(r) => ListedNames(req[r]) = ResultNames(req[r])

\* C27 (failing input): B1 was deployed by the first request and is still on
\* the branch, the page deployed by the second request lists C2 only
C27_EarlierCreativeUnlisted ==
  /\ LastIndexed(2)
  /\ ResultNames(req[1]) = {<<"B","1">>}
  /\ ResultNames(req[2]) = {<<"C","2">>}
  /\ ListedNames(req[2]) = {<<"C","2">>}
  /\ <<"n","i","k","e","/","s","u","m","m","e","r","-","2","5","/","b","1","/",
       "i",".","h","t","m","l">> \in DOMAIN ghRef[1].tree

\* C29: the campaignUrl returned by generate-batch equals the URL that the
\* deployment client computes for the campaign index it deploys to
\* {clientSlug}/{campaignSlug}, in every configuration, including when a
\* custom domain is configured.
C29_Original ==
  \A r \in Callers :
    (req[r].kind = "batch" /\ req[r].pc = "responded"
       /\ req[r].response[1].status = 200 /\ dep[r].pc = "done")
      => req[r].response[1].campaignUrl = dep[r].result[1].previewUrl

\* C29 (without a custom domain): the two URLs are the same
C29_WithoutCustomDomain == env.customDomain = <<>> => C29_Original

\* C29 (failing input): with CUSTOM_DOMAIN set the index page is at the
\* domain, the response names the github.io address
C29_UrlsDiffer ==
  \E r \in Callers :
    /\ req[r].kind = "batch" /\ req[r].pc = "responded" /\ dep[r].pc = "done"
    /\ env.customDomain = DomainName
    /\ dep[r].result[1].previewUrl =
         <<"https://">> \o DomainName \o <<"/">> \o <<"n","i","k","e","/","s","u","m","m","e","r","-","2","5">> \o <<"/">>
    /\ req[r].response[1].campaignUrl =
         <<"https://">> \o OwnerName \o <<".github.io/">> \o RepoName \o <<"/">>
           \o <<"n","i","k","e","/","s","u","m","m","e","r","-","2","5">> \o <<"/">>

\* the text after the last slash of a path
LastSegment(p) ==
  LET slashes == {i \in 1..Len(p) : p[i] = "/"}
  IN IF slashes = {} THEN p
     ELSE SubSeq(p, (CHOOSE i \in slashes : \A j \in slashes : j <= i) + 1, Len(p))

\* C28: for every creative in the results of a batch, the relative folder that
\* the campaign index embeds for it (the slug computed from the creative name,
\* used as iframe source and link) is the last segment of the sanitized target
\* path under which that creative's files were actually deployed, so the index
\* link resolves to the deployed creative.
C28_Original == fnOut # <<>> => fnOut[1].slug = LastSegment(fnOut[1].basePath)

\* C28 (names that end in a letter or a digit): the slug is the deployed folder
C28_NameEndsAlnum ==
  (fnOut # <<>>
     /\ IsAlnum(LowerChar(fnIn.filename[Len(fnIn.filename) - Len(ZipExt)])))
    => fnOut[1].slug = LastSegment(fnOut[1].basePath)

\* C28 (failing input): B1!.zip is deployed to .../b1, the index links to b1-
C28_LinkMisses ==
  /\ fnIn = [filename |-> <<"B","1","!">> \o ZipExt]
  /\ fnOut = << [ basePath |-> <<"n","i","k","e","/","s","u","m","m","e","r","-","2","5",
                                 "/","b","1">>,
                  slug |-> <<"b","1","-">> ] >>

\* the ids of the clients in the client list
ClientIds == {clients[i].id : i \in 1..Len(clients)}

\* the campaigns stored in the table, under any key
StoredCampaigns ==
  UNION {{campaigns[c][i] : i \in 1..Len(campaigns[c])} : c \in DOMAIN campaigns}

\* C30: after any sequence of client and campaign creation requests, every
\* campaign stored in the campaign table has a clientId that is the id of a
\* client present in the client list (a campaign cannot be created for a
\* client that does not exist).
C30_Original == \A campaign \in StoredCampaigns : campaign.clientId \in ClientIds

\* C30 (what does hold): a campaign is stored under the key of its clientId,
\* the :clientId of the request
C30_StoredUnderItsClientId ==
  \A c \in DOMAIN campaigns :
    \A i \in 1..Len(campaigns[c]) : campaigns[c][i].clientId = c

\* C30 (failing input): a campaign was created for "ghost", which is no client
C30_CampaignOfNoClient ==
  /\ tblResp.op = "postCampaigns" /\ tblResp.status = 200
  /\ tblResp.clientId = GhostId
  /\ GhostId \notin ClientIds
  /\ \E campaign \in StoredCampaigns : campaign.clientId = GhostId

====
